---------------------------- MODULE Spec2Model ----------------------------
(***************************************************************************)
(* Model of the meaning-block segmentation pipeline of the ElevenLabs      *)
(* Reader translator extension: the structural validator, the coverage     *)
(* audit, the semantic rule battery, the retry table (src/prompts.js) and  *)
(* the retry loop of handlePositionBasedPartitioning (src/background.js).  *)
(*                                                                         *)
(* Texts are sequences of characters.  A character is a one-letter string; *)
(* a character outside ASCII is written by its name ("eacute", "agrave",   *)
(* "laquo", "mdash", ...), still one element of the sequence, so lengths   *)
(* agree with JavaScript's String.length.  A literal piece of a message    *)
(* that the code builds is one element holding the whole literal, except   *)
(* the two literals the retry loop searches for, which are spelled out.    *)
(***************************************************************************)
EXTENDS Integers, Sequences, FiniteSets, TLC

\* ------------------------------------------------------------------------
\* Text primitives (JavaScript String methods used by src/prompts.js)
\* ------------------------------------------------------------------------

UpperCase ==
    <<"A","B","C","D","E","F","G","H","I","J","K","L","M",
      "N","O","P","Q","R","S","T","U","V","W","X","Y","Z">>

LowerCase ==
    <<"a","b","c","d","e","f","g","h","i","j","k","l","m",
      "n","o","p","q","r","s","t","u","v","w","x","y","z">>

\* String.prototype.toLowerCase, one character
LowerChar(ch) ==
    IF \E k \in DOMAIN UpperCase : UpperCase[k] = ch
    THEN LowerCase[CHOOSE k \in DOMAIN UpperCase : UpperCase[k] = ch]
    ELSE ch

\* String.prototype.toLowerCase
toLowerCase(t) == [k \in DOMAIN t |-> LowerChar(t[k])]

\* the class \s of the regular expressions
IsSpace(ch) == ch \in {" ", "\t", "\n"}

\* the class [.,;:!?'"] of the regular expressions
PUNCT == {".", ",", ";", ":", "!", "?", "'", "\""}

\* the class [.,;:!?'"«»—–-] of checkOrphanPunctuation
ORPHAN_PUNCT == PUNCT \cup {"laquo", "raquo", "mdash", "ndash", "-"}

\* index of the first white-space character of t at or after position k,
\* Len(t) + 1 when there is none
RECURSIVE FirstSpace(_, _)
FirstSpace(t, k) ==
    IF k > Len(t) THEN Len(t) + 1
    ELSE IF IsSpace(t[k]) THEN k
    ELSE FirstSpace(t, k + 1)

\* the same for the first character that is not white space
RECURSIVE FirstNonSpace(_, _)
FirstNonSpace(t, k) ==
    IF k > Len(t) THEN Len(t) + 1
    ELSE IF ~IsSpace(t[k]) THEN k
    ELSE FirstNonSpace(t, k + 1)

\* the same for the first character that is not punctuation
RECURSIVE FirstNonPunct(_, _)
FirstNonPunct(t, k) ==
    IF k > Len(t) THEN Len(t) + 1
    ELSE IF t[k] \notin PUNCT THEN k
    ELSE FirstNonPunct(t, k + 1)

\* String.prototype.split(/\s+/): the maximal runs without white space; a
\* text that starts or ends with white space gives an empty first or last
\* piece, and the empty text gives one empty piece
RECURSIVE SplitWS(_)
SplitWS(t) ==
    LET i == FirstSpace(t, 1)
    IN  IF i > Len(t) THEN <<t>>
        ELSE LET j == FirstNonSpace(t, i)
             IN  <<SubSeq(t, 1, i - 1)>> \o SplitWS(SubSeq(t, j, Len(t)))

NonEmpty(w) == Len(w) > 0

\* split(/\s+/).filter(w => w.length > 0)
WordsOf(t) == SelectSeq(SplitWS(t), NonEmpty)

NotPunct(ch) == ch \notin PUNCT

\* replace(/[.,;:!?'"]/g, '')
StripPunct(w) == SelectSeq(w, NotPunct)

\* String.prototype.startsWith
startsWith(t, p) == Len(p) <= Len(t) /\ SubSeq(t, 1, Len(p)) = p

\* String.prototype.endsWith
endsWith(t, s) == Len(s) <= Len(t) /\ SubSeq(t, Len(t) - Len(s) + 1, Len(t)) = s

\* String.prototype.includes
includes(t, p) ==
    \E k \in 0 .. (Len(t) - Len(p)) : SubSeq(t, k + 1, k + Len(p)) = p

\* index of the last element of t that is not white space, 0 when none
RECURSIVE LastNonSpace(_, _)
LastNonSpace(t, k) ==
    IF k = 0 THEN 0
    ELSE IF IsSpace(t[k]) THEN LastNonSpace(t, k - 1)
    ELSE k

\* String.prototype.trim
trim(t) == SubSeq(t, FirstNonSpace(t, 1), LastNonSpace(t, Len(t)))

\* Array.prototype.join(' ')
RECURSIVE JoinSpace(_)
JoinSpace(ws) ==
    IF Len(ws) = 0 THEN <<>>
    ELSE IF Len(ws) = 1 THEN ws[1]
    ELSE ws[1] \o <<" ">> \o JoinSpace(Tail(ws))

\* Array.prototype.includes on a table of texts
InTable(table, w) == \E k \in DOMAIN table : table[k] = w

\* match(/^[...]+$/): a non-empty text made of characters of the class only
AllIn(t, class) == Len(t) > 0 /\ \A k \in DOMAIN t : t[k] \in class

\* replace(/^[.,;:!?'"]+\s*/, ''): a leading run of punctuation and the
\* white space after it are removed; a text that does not start with
\* punctuation is unchanged
StripLeadingPunct(t) ==
    LET i == FirstNonPunct(t, 1)
    IN  IF i = 1 THEN t
        ELSE SubSeq(t, FirstNonSpace(t, i), Len(t))

\* ------------------------------------------------------------------------
\* JavaScript values as they come out of JSON.parse
\* ------------------------------------------------------------------------

\* a number
Num(k) == [t |-> "number", n |-> k, s |-> <<>>]

\* a string
Str(x) == [t |-> "string", n |-> 0, s |-> x]

\* undefined: the key is absent
Undefined == [t |-> "undefined", n |-> 0, s |-> <<>>]

\* null
Null == [t |-> "null", n |-> 0, s |-> <<>>]

\* an object, an array or true: truthy and neither a number nor a string
Obj == [t |-> "object", n |-> 0, s |-> <<>>]

\* ToBoolean
Truthy(v) ==
    CASE v.t = "number" -> v.n /= 0
      [] v.t = "string" -> Len(v.s) > 0
      [] v.t = "object" -> TRUE
      [] OTHER -> FALSE

\* a || b
OrElse(a, b) == IF Truthy(a) THEN a ELSE b

\* ------------------------------------------------------------------------
\* Lexical tables of the semantic rule battery (src/prompts.js)
\* ------------------------------------------------------------------------

LINKING_VERBS ==
    << <<"e","s","t">>, <<"s","o","n","t">>, <<"eacute","t","a","i","t">>,
       <<"eacute","t","a","i","e","n","t">>, <<"s","e","r","a">>, <<"s","e","r","o","n","t">>,
       <<"eacute","t","eacute">>, <<"eacute","t","a","n","t">>, <<"s","u","i","s">>, <<"e","s">>,
       <<"s","o","m","m","e","s">>, <<"ecirc","t","e","s">>, <<"s","e","r","a","i">>,
       <<"s","e","r","a","s">>, <<"s","e","r","e","z">>, <<"s","e","r","a","i","s">>,
       <<"s","e","r","a","i","t">>, <<"s","e","r","a","i","e","n","t">>,
       <<"s","e","r","i","o","n","s">>, <<"s","e","r","i","e","z">>, <<"s","o","i","t">>,
       <<"s","o","i","e","n","t">>, <<"f","ucirc","t">>, <<"r","e","s","t","e">>,
       <<"r","e","s","t","e","s">>, <<"r","e","s","t","e","n","t">>,
       <<"r","e","s","t","a","i","t">>, <<"r","e","s","t","a","i","e","n","t">>,
       <<"r","e","s","t","e","r","a">>, <<"r","e","s","t","e","r","o","n","t">>,
       <<"r","e","s","t","eacute","e">>, <<"r","e","s","t","eacute">>,
       <<"r","e","s","t","eacute","s">>, <<"r","e","s","t","eacute","e","s">>,
       <<"d","e","v","i","e","n","t">>, <<"d","e","v","i","e","n","n","e","n","t">>,
       <<"d","e","v","e","n","a","i","t">>, <<"d","e","v","e","n","a","i","e","n","t">>,
       <<"d","e","v","i","e","n","d","r","a">>, <<"d","e","v","i","e","n","d","r","o","n","t">>,
       <<"d","e","v","e","n","u">>, <<"d","e","v","e","n","u","e">>,
       <<"d","e","v","e","n","u","s">>, <<"d","e","v","e","n","u","e","s">>,
       <<"s","e","m","b","l","e">>, <<"s","e","m","b","l","e","s">>,
       <<"s","e","m","b","l","e","n","t">>, <<"s","e","m","b","l","a","i","t">>,
       <<"s","e","m","b","l","a","i","e","n","t">>, <<"s","e","m","b","l","e","r","a">>,
       <<"p","a","r","a","icirc","t">>, <<"p","a","r","a","i","t">>,
       <<"p","a","r","a","i","s","s","e","n","t">>, <<"p","a","r","a","i","s","s","a","i","t">>,
       <<"p","a","r","a","icirc","t","r","a">>, <<"d","e","m","e","u","r","e">>,
       <<"d","e","m","e","u","r","e","n","t">>, <<"d","e","m","e","u","r","a","i","t">>,
       <<"d","e","m","e","u","r","a","i","e","n","t">> >>

FIXED_EXPRESSIONS ==
    << <<"f","a","c","e"," ","agrave">>, <<"e","n"," ","r","a","i","s","o","n"," ","d","e">>,
       <<"g","r","acirc","c","e"," ","agrave">>, <<"q","u","a","n","t"," ","agrave">>,
       <<"agrave"," ","c","a","u","s","e"," ","d","e">>,
       <<"a","u"," ","l","i","e","u"," ","d","e">>,
       <<"p","a","r"," ","r","a","p","p","o","r","t"," ","agrave">>,
       <<"e","n"," ","d","eacute","p","i","t"," ","d","e">>,
       <<"agrave"," ","l","'","eacute","g","a","r","d"," ","d","e">>,
       <<"a","u"," ","s","e","i","n"," ","d","e">>, <<"e","n"," ","v","u","e"," ","d","e">>,
       <<"agrave"," ","t","r","a","v","e","r","s">>,
       <<"a","u","-","d","e","l","agrave"," ","d","e">>,
       <<"e","n"," ","d","e","h","o","r","s"," ","d","e">>,
       <<"agrave"," ","p","a","r","t","i","r"," ","d","e">>,
       <<"a","u"," ","c","o","u","r","s"," ","d","e">>,
       <<"e","n"," ","f","o","n","c","t","i","o","n"," ","d","e">>,
       <<"agrave"," ","l","a"," ","s","u","i","t","e"," ","d","e">> >>

DISCOURSE_MARKERS ==
    << <<"c","e","p","e","n","d","a","n","t">>, <<"n","eacute","a","n","m","o","i","n","s">>,
       <<"t","o","u","t","e","f","o","i","s">>,
       <<"p","a","r"," ","a","i","l","l","e","u","r","s">>, <<"e","n"," ","e","f","f","e","t">>,
       <<"e","n"," ","r","e","v","a","n","c","h","e">>,
       <<"p","a","r"," ","c","o","n","t","r","e">>, <<"d","e"," ","p","l","u","s">>,
       <<"e","n"," ","o","u","t","r","e">>, <<"a","i","n","s","i">>, <<"d","o","n","c">>,
       <<"p","o","u","r","t","a","n","t">>, <<"d","'","a","i","l","l","e","u","r","s">>,
       <<"a","u","t","r","e","m","e","n","t"," ","d","i","t">>,
       <<"e","n"," ","s","o","m","m","e">>, <<"b","r","e","f">> >>

CIRCUMSTANTIAL_PREPOSITIONS ==
    << <<"d","egrave","s">>, <<"d","e","p","u","i","s">>, <<"p","e","n","d","a","n","t">>,
       <<"a","p","r","egrave","s">>, <<"a","v","a","n","t">>, <<"l","o","r","s"," ","d","e">>,
       <<"d","u","r","a","n","t">>, <<"d","a","n","s">>, <<"e","n","t","r","e">>,
       <<"v","e","r","s">>, <<"s","o","u","s">>, <<"s","u","r">>,
       <<"d","e","r","r","i","egrave","r","e">>, <<"d","e","v","a","n","t">>,
       <<"p","o","u","r">>, <<"a","f","i","n"," ","d","e">>, <<"a","v","e","c">>,
       <<"s","a","n","s">>, <<"s","e","l","o","n">>, <<"m","a","l","g","r","eacute">>,
       <<"e","n">>, <<"p","a","r">> >>

verbIndicators ==
    << <<"a">>, <<"o","n","t">>, <<"v","a">>, <<"v","o","n","t">>, <<"f","a","i","t">>, <<"p","e","u","t">>, <<"v","e","u","t">>, <<"d","o","i","t">> >>

verbEndings ==
    << <<"e","r">>, <<"i","r">>, <<"r","e">>, <<"eacute">>, <<"eacute","e">>, <<"eacute","s">>, <<"eacute","e","s">>, <<"a","n","t">> >>

\* ------------------------------------------------------------------------
\* Semantic rule battery (src/prompts.js)
\* ------------------------------------------------------------------------

\* (x || '') for a field that holds a string or nothing
TextOf(v) == IF Truthy(v) THEN v.s ELSE <<>>

\* `${x}` inside a template literal
Interp(v) == IF v.t = "string" THEN v.s ELSE <<v.t>>

\* a field on which .toLowerCase(), .trim() or .split() raises a TypeError:
\* a truthy value that is no string
NotText(v) == Truthy(v) /\ v.t /= "string"

Violation(type, message, severity, blockIndex) ==
    [type |-> type, message |-> message, severity |-> severity,
     blockIndex |-> blockIndex]

RECURSIVE AnyEnding(_, _)
AnyEnding(firstWord, k) ==
    IF k > Len(verbEndings) THEN FALSE
    ELSE IF endsWith(firstWord, verbEndings[k]) /\ Len(firstWord) > 3 THEN TRUE
    ELSE AnyEnding(firstWord, k + 1)

startsWithVerb(text) ==
    IF ~Truthy(text) THEN FALSE
    ELSE LET firstWord == StripPunct(SplitWS(toLowerCase(text.s))[1])
         IN  IF InTable(verbIndicators, firstWord) THEN TRUE
             ELSE AnyEnding(firstWord, 1)

\* a length test that every block passes
AnyLength(words) == TRUE

\* line 182: the block is short (1-2 words)
ShortBlock(words) == Len(words) <= 2

\* the violations of block i (1-based here, blockIndex is 0-based), then
\* those of the blocks after it, for i < blocks.length
RECURSIVE checkLinkingVerbIsolationFrom(_, _)
checkLinkingVerbIsolationFrom(blocks, i) ==
    IF i > Len(blocks) - 1 THEN <<>>
    ELSE
      LET block == blocks[i]
          words == WordsOf(toLowerCase(TextOf(block.original)))
          lastWord == StripPunct(words[Len(words)])
          nextBlock == blocks[i + 1]
          here ==
            IF Len(words) = 0 THEN <<>>
            ELSE IF InTable(LINKING_VERBS, lastWord) /\ ShortBlock(words)
                    /\ ~startsWithVerb(nextBlock.original)
            THEN << Violation("linking_verb_isolated",
                       <<"Linking verb \"">> \o Interp(block.original)
                         \o <<"\" should merge with \"">>
                         \o Interp(nextBlock.original) \o <<"\"">>,
                       "error", i - 1) >>
            ELSE <<>>
      IN  here \o checkLinkingVerbIsolationFrom(blocks, i + 1)

\* a check that leaves out the first block
checkLinkingVerbIsolationAfterFirst(blocks) == checkLinkingVerbIsolationFrom(blocks, 2)

checkLinkingVerbIsolation(blocks) == checkLinkingVerbIsolationFrom(blocks, 1)

\* the fixed expressions from entry k on that block i starts with and
\* buries
RECURSIVE FixedExpressionsOf(_, _, _)
FixedExpressionsOf(blocks, i, k) ==
    IF k > Len(FIXED_EXPRESSIONS) THEN <<>>
    ELSE
      LET original == toLowerCase(TextOf(blocks[i].original))
          expr == FIXED_EXPRESSIONS[k]
          remainder == trim(SubSeq(original, Len(expr) + 1, Len(original)))
          here ==
            IF startsWith(original, expr) /\ Len(remainder) > 3
               /\ ~AllIn(remainder, PUNCT)
            THEN << Violation("fixed_expression_buried",
                       <<"\"">> \o expr \o <<"\" should be isolated, found buried in \"">>
                         \o Interp(blocks[i].original) \o <<"\"">>,
                       "warning", i - 1) >>
            ELSE <<>>
      IN  here \o FixedExpressionsOf(blocks, i, k + 1)

RECURSIVE checkFixedExpressionBuriedFrom(_, _)
checkFixedExpressionBuriedFrom(blocks, i) ==
    IF i > Len(blocks) THEN <<>>
    ELSE FixedExpressionsOf(blocks, i, 1)
           \o checkFixedExpressionBuriedFrom(blocks, i + 1)

checkFixedExpressionBuried(blocks) == checkFixedExpressionBuriedFrom(blocks, 1)

RECURSIVE checkDiscourseMarkerAbsorbedFrom(_, _)
checkDiscourseMarkerAbsorbedFrom(blocks, i) ==
    IF i > Len(blocks) THEN <<>>
    ELSE
      LET original == toLowerCase(TextOf(blocks[i].original))
          words == WordsOf(original)
          firstWord == StripPunct(words[1])
          withoutMarker == StripLeadingPunct(JoinSpace(Tail(words)))
          here ==
            IF Len(words) <= 1 THEN <<>>
            ELSE IF InTable(DISCOURSE_MARKERS, firstWord) /\ Len(withoutMarker) > 0
            THEN << Violation("discourse_marker_absorbed",
                       <<"Discourse marker \"">> \o firstWord
                         \o <<"\" should be isolated, found in \"">>
                         \o Interp(blocks[i].original) \o <<"\"">>,
                       "warning", i - 1) >>
            ELSE <<>>
      IN  here \o checkDiscourseMarkerAbsorbedFrom(blocks, i + 1)

checkDiscourseMarkerAbsorbed(blocks) == checkDiscourseMarkerAbsorbedFrom(blocks, 1)

RECURSIVE checkOrphanPunctuationFrom(_, _)
checkOrphanPunctuationFrom(blocks, i) ==
    IF i > Len(blocks) THEN <<>>
    ELSE
      LET original == trim(TextOf(blocks[i].original))
          here ==
            IF AllIn(original, ORPHAN_PUNCT)
            THEN << Violation("orphan_punctuation",
                       <<"Punctuation \"">> \o original
                         \o <<"\" should attach to preceding block">>,
                       "error", i - 1) >>
            ELSE <<>>
      IN  here \o checkOrphanPunctuationFrom(blocks, i + 1)

\* a check that leaves out the first block
checkOrphanPunctuationAfterFirst(blocks) == checkOrphanPunctuationFrom(blocks, 2)

checkOrphanPunctuation(blocks) == checkOrphanPunctuationFrom(blocks, 1)

\* the inner loop of checkCircumstantialPhraseBuried from word j (1-based;
\* the code's j is j - 1): the first preposition buried in the block, if any
RECURSIVE BuriedPhraseFrom(_, _, _, _)
BuriedPhraseFrom(blocks, i, words, j) ==
    IF j > Len(words) - 1 THEN <<>>
    ELSE
      LET word == StripPunct(words[j])
          beforePrep == JoinSpace(SubSeq(words, 1, j - 1))
          fromPrep == JoinSpace(SubSeq(words, j, Len(words)))
          twoWords == word \o <<" ">> \o StripPunct(words[j + 1])
          Found(prep) ==
            << Violation("circumstantial_phrase_buried",
                   <<"Circumstantial phrase starting with \"">> \o prep
                     \o <<"\" should be isolated in \"">>
                     \o Interp(blocks[i].original) \o <<"\"">>,
                   "warning", i - 1) >>
      IN  IF InTable(CIRCUMSTANTIAL_PREPOSITIONS, word)
             /\ Len(beforePrep) > 3 /\ Len(fromPrep) > 5
          THEN Found(word)
          ELSE IF InTable(CIRCUMSTANTIAL_PREPOSITIONS, twoWords)
                  /\ Len(beforePrep) > 3 /\ Len(fromPrep) > 8
          THEN Found(twoWords)
          ELSE BuriedPhraseFrom(blocks, i, words, j + 1)

RECURSIVE checkCircumstantialPhraseBuriedFrom(_, _)
checkCircumstantialPhraseBuriedFrom(blocks, i) ==
    IF i > Len(blocks) THEN <<>>
    ELSE
      LET words == WordsOf(toLowerCase(TextOf(blocks[i].original)))
          here == IF Len(words) <= 3 THEN <<>>
                  ELSE BuriedPhraseFrom(blocks, i, words, 2)
      IN  here \o checkCircumstantialPhraseBuriedFrom(blocks, i + 1)

checkCircumstantialPhraseBuried(blocks) ==
    checkCircumstantialPhraseBuriedFrom(blocks, 1)

\* the battery raises a TypeError on a block whose original is truthy and
\* no string: checkFixedExpressionBuried lower-cases every block's original
SemanticsThrows(blocks) == \E i \in DOMAIN blocks : NotText(blocks[i].original)

\* an aggregation that asks for a retry on any warning
AggregateStrict(violations) ==
    LET hasErrors == \E k \in DOMAIN violations : violations[k].severity = "error"
        hasWarnings == \E k \in DOMAIN violations : violations[k].severity = "warning"
    IN  [valid |-> ~hasErrors,
         violations |-> violations,
         shouldRetry |-> hasErrors \/ hasWarnings]

\* lines 376-384: hasErrors, hasWarnings and the record returned
Aggregate(violations) ==
    LET hasErrors == \E k \in DOMAIN violations : violations[k].severity = "error"
        hasWarnings == \E k \in DOMAIN violations : violations[k].severity = "warning"
    IN  [valid |-> ~hasErrors,
         violations |-> violations,
         shouldRetry |-> hasErrors \/ (hasWarnings /\ Len(violations) >= 2)]

\* validateSemantics(blocks, words): the violations of the five checks in the
\* order of lines 369-373, aggregated
validateSemantics(blocks) ==
    Aggregate(checkLinkingVerbIsolation(blocks)
              \o checkFixedExpressionBuried(blocks)
              \o checkDiscourseMarkerAbsorbed(blocks)
              \o checkOrphanPunctuation(blocks)
              \o checkCircumstantialPhraseBuried(blocks))

\* ------------------------------------------------------------------------
\* Structural validator and coverage audit (src/background.js)
\* ------------------------------------------------------------------------

\* a number inside a template literal
NumText(k) == <<ToString(k)>>

\* a position set that holds every number
AnyCValues(words) == Int

\* new Set(words.map(w => w.c))
validCValues(words) == {words[k].c : k \in DOMAIN words}

\* the checks of one block with the translation looked at first
BlockErrorTranslationFirst(block, i, words) ==
    LET idx == NumText(i - 1)
    IN  IF ~Truthy(block.translation) \/ block.translation.t /= "string"
        THEN <<"Block ">> \o idx \o <<": missing or invalid translation">>
        ELSE IF block.start_c.t /= "number" \/ block.end_c.t /= "number"
        THEN <<"Block ">> \o idx \o <<": missing start_c or end_c">>
        ELSE IF block.start_c.n \notin validCValues(words)
        THEN <<"Block ">> \o idx \o <<": start_c ">> \o NumText(block.start_c.n)
               \o <<" not in word map">>
        ELSE IF block.end_c.n \notin validCValues(words)
        THEN <<"Block ">> \o idx \o <<": end_c ">> \o NumText(block.end_c.n)
               \o <<" not in word map">>
        ELSE IF block.start_c.n > block.end_c.n
        THEN <<"Block ">> \o idx \o <<": start_c > end_c">>
        ELSE <<>>

\* an order check that never fires
StartAfterEndIgnored(block) == FALSE

\* line 179: block.start_c > block.end_c
StartAfterEnd(block) == block.start_c.n > block.end_c.n

\* the first failing check of block i (1-based; the message names i - 1),
\* <<>> when the block passes
BlockError(block, i, words) ==
    LET idx == NumText(i - 1)
    IN  IF block.start_c.t /= "number" \/ block.end_c.t /= "number"
        THEN <<"Block ">> \o idx \o <<": missing start_c or end_c">>
        ELSE IF ~Truthy(block.translation) \/ block.translation.t /= "string"
        THEN <<"Block ">> \o idx \o <<": missing or invalid translation">>
        ELSE IF block.start_c.n \notin validCValues(words)
        THEN <<"Block ">> \o idx \o <<": start_c ">> \o NumText(block.start_c.n)
               \o <<" not in word map">>
        ELSE IF block.end_c.n \notin validCValues(words)
        THEN <<"Block ">> \o idx \o <<": end_c ">> \o NumText(block.end_c.n)
               \o <<" not in word map">>
        ELSE IF StartAfterEnd(block)
        THEN <<"Block ">> \o idx \o <<": start_c > end_c">>
        ELSE <<>>

\* the per-block loop from block i on: the first error, <<>> when none
RECURSIVE FirstBlockError(_, _, _)
FirstBlockError(blocks, i, words) ==
    IF i > Len(blocks) THEN <<>>
    ELSE IF BlockError(blocks[i], i, words) /= <<>>
    THEN BlockError(blocks[i], i, words)
    ELSE FirstBlockError(blocks, i + 1, words)

\* b inserted into the start-sorted list s after every block whose start_c
\* is not greater: Array.prototype.sort is stable
RECURSIVE InsertByStart(_, _)
InsertByStart(s, b) ==
    IF Len(s) = 0 THEN <<b>>
    ELSE IF s[Len(s)].start_c.n <= b.start_c.n THEN Append(s, b)
    ELSE Append(InsertByStart(SubSeq(s, 1, Len(s) - 1), b), s[Len(s)])

\* the blocks in the order given
Unsorted(blocks) == blocks

\* [...blocks].sort((a, b) => a.start_c - b.start_c)
RECURSIVE SortByStart(_)
SortByStart(blocks) ==
    IF Len(blocks) = 0 THEN <<>>
    ELSE InsertByStart(SortByStart(SubSeq(blocks, 1, Len(blocks) - 1)),
                       blocks[Len(blocks)])

\* an overlap loop that lets a block start where the one before ends
RECURSIVE FirstStrictOverlap(_, _)
FirstStrictOverlap(sortedBlocks, i) ==
    IF i > Len(sortedBlocks) THEN <<>>
    ELSE IF sortedBlocks[i].start_c.n < sortedBlocks[i - 1].end_c.n
    THEN <<"Blocks ">> \o NumText(i - 2) \o <<" and ">> \o NumText(i - 1)
           \o <<" overlap">>
    ELSE FirstStrictOverlap(sortedBlocks, i + 1)

\* an overlap loop that finds nothing
NoOverlap(sortedBlocks, i) == <<>>

\* the overlap loop over the sorted blocks from index i on (1-based; the
\* code's i is i - 1)
RECURSIVE FirstOverlap(_, _)
FirstOverlap(sortedBlocks, i) ==
    IF i > Len(sortedBlocks) THEN <<>>
    ELSE IF sortedBlocks[i].start_c.n <= sortedBlocks[i - 1].end_c.n
    THEN <<"Blocks ">> \o NumText(i - 2) \o <<" and ">> \o NumText(i - 1)
           \o <<" overlap">>
    ELSE FirstOverlap(sortedBlocks, i + 1)

\* a validator without the check of line 137
validateNonEmpty(parsed, words) ==
    IF ~parsed.isArray
    THEN [valid |-> FALSE, error |-> <<"Missing or invalid blocks array">>]
    ELSE IF FirstBlockError(parsed.blocks, 1, words) /= <<>>
    THEN [valid |-> FALSE, error |-> FirstBlockError(parsed.blocks, 1, words)]
    ELSE IF FirstOverlap(SortByStart(parsed.blocks), 2) /= <<>>
    THEN [valid |-> FALSE, error |-> FirstOverlap(SortByStart(parsed.blocks), 2)]
    ELSE [valid |-> TRUE, error |-> <<>>]

\* parsed is [isArray, blocks]: isArray says that parsed.blocks is an array
validateLLMResponse(parsed, words) ==
    IF ~parsed.isArray
    THEN [valid |-> FALSE, error |-> <<"Missing or invalid blocks array">>]
    ELSE IF Len(parsed.blocks) = 0
    THEN [valid |-> FALSE, error |-> <<"Empty blocks array">>]
    ELSE IF FirstBlockError(parsed.blocks, 1, words) /= <<>>
    THEN [valid |-> FALSE, error |-> FirstBlockError(parsed.blocks, 1, words)]
    ELSE IF FirstOverlap(SortByStart(parsed.blocks), 2) /= <<>>
    THEN [valid |-> FALSE, error |-> FirstOverlap(SortByStart(parsed.blocks), 2)]
    ELSE [valid |-> TRUE, error |-> <<>>]

\* b inserted into the c-sorted word list s (stable)
RECURSIVE InsertByC(_, _)
InsertByC(s, w) ==
    IF Len(s) = 0 THEN <<w>>
    ELSE IF s[Len(s)].c <= w.c THEN Append(s, w)
    ELSE Append(InsertByC(SubSeq(s, 1, Len(s) - 1), w), s[Len(s)])

\* words.slice().sort((a, b) => a.c - b.c)
RECURSIVE SortByC(_)
SortByC(words) ==
    IF Len(words) = 0 THEN <<>>
    ELSE InsertByC(SortByC(SubSeq(words, 1, Len(words) - 1)), words[Len(words)])

\* the gap warnings [expected, got] of the sorted blocks from block i on,
\* with the cursor expectedNextC
RECURSIVE CoverageFrom(_, _, _, _)
CoverageFrom(sortedBlocks, sortedWords, i, expectedNextC) ==
    IF i > Len(sortedBlocks) THEN <<>>
    ELSE
      LET block == sortedBlocks[i]
          found == {j \in DOMAIN sortedWords : sortedWords[j].c = block.end_c.n}
          endWordIndex == CHOOSE j \in found : \A k \in found : j <= k
          next == IF found /= {} /\ endWordIndex < Len(sortedWords)
                  THEN sortedWords[endWordIndex + 1].c
                  ELSE expectedNextC
          here == IF block.start_c.n /= expectedNextC
                  THEN << [expected |-> expectedNextC, got |-> block.start_c.n] >>
                  ELSE <<>>
      IN  here \o CoverageFrom(sortedBlocks, sortedWords, i + 1, next)

\* the warnings validateBlockCoverage logs; it returns nothing
validateBlockCoverage(blocks, words) ==
    IF Len(blocks) = 0 THEN <<>>
    ELSE LET sortedWords == SortByC(words)
         IN  CoverageFrom(SortByStart(blocks), sortedWords, 1,
                          IF Len(sortedWords) > 0 THEN sortedWords[1].c ELSE 0)

\* The word list after a call.  The three validators read their words
\* argument and write to copies only.

\* line 143: words.map builds a new array for the Set of positions
WordsAfterValidate(parsed, words) == words

\* a coverage validation that sorts the list it is given
WordsSortedInPlace(blocks, words) == SortByC(words)

\* line 205: words.slice().sort(...) sorts a copy
WordsAfterCoverage(blocks, words) == words

\* prompts.js, validateSemantics(blocks, words): words is never read
WordsAfterSemantics(blocks, words) == words

\* ------------------------------------------------------------------------
\* Retry table (src/prompts.js); temperatures in tenths
\* ------------------------------------------------------------------------

RETRY_CONFIG ==
    << [temperature |-> 2, delay |-> 0],
       [temperature |-> 4, delay |-> 1000],
       [temperature |-> 6, delay |-> 2000] >>

Min(a, b) == IF a <= b THEN a ELSE b

\* a table that starts again from its first entry after the last
wrappedRetryConfig(attempt) ==
    RETRY_CONFIG[((attempt - 1) % Len(RETRY_CONFIG)) + 1]

\* RETRY_CONFIG[Math.min(attempt - 1, RETRY_CONFIG.length - 1)]
getRetryConfig(attempt) ==
    RETRY_CONFIG[Min(attempt - 1, Len(RETRY_CONFIG) - 1) + 1]

\* a loop bound one above the table's length
OneMoreRetry == Len(RETRY_CONFIG) + 1

\* getMaxRetries() returns RETRY_CONFIG.length
getMaxRetries == Len(RETRY_CONFIG)

\* ------------------------------------------------------------------------
\* Bounds and inputs
\* ------------------------------------------------------------------------

\* words in a paragraph
NumWords == 3

\* largest position (attribute c) of the first word of a paragraph
MaxOffset == 1

\* blocks in one candidate of the generator
MaxBlocks == 2

\* the texts of the last words of a paragraph; the words before are "mot"
WordTexts == << <<"i","l">>, <<"e","s","t">>, <<",">> >>

\* the text of word k of n
WordText(k, n) ==
    IF k > n - Len(WordTexts) THEN WordTexts[k - (n - Len(WordTexts))]
    ELSE <<"m","o","t">>

\* extractWordMap sorts the words by c: the word lists with NumWords words
\* at the positions off, off + 1, ..., for off in 0 .. MaxOffset
WordLists ==
    { [k \in 1 .. NumWords |-> [c |-> off + k - 1, text |-> WordText(k, NumWords)]] :
        off \in 0 .. MaxOffset }

\* the two texts the retry loop searches the error message for
InvalidAPIKey == <<"I","n","v","a","l","i","d"," ","A","P","I"," ","k","e","y">>

APIKeyNotFound ==
    <<"A","P","I"," ","K","e","y"," ","n","o","t"," ","f","o","u","n","d">>

Translated == Str(<<"t","r","a","n","s","l","a","t","e","d">>)

\* one entry of the blocks array the generator returns
RawBlock(s, e, start_c, end_c, original, t, translation) ==
    [s |-> s, e |-> e, start_c |-> start_c, end_c |-> end_c,
     original |-> original, t |-> t, translation |-> translation]

\* an entry in the index format {s, e, t}
IndexBlock(s, e) ==
    RawBlock(s, e, Undefined, Undefined, Undefined, Translated, Undefined)

\* an entry in the index format that carries its own original text
TextBlock(s, e, original) ==
    RawBlock(s, e, Undefined, Undefined, original, Translated, Undefined)

\* an entry in the older format {start_c, end_c, translation}
LegacyBlock(start_c, end_c) ==
    RawBlock(Undefined, Undefined, start_c, end_c, Undefined, Undefined, Translated)

\* the entries the generator draws from, for a paragraph of n words: the
\* last three words in two blocks, an index past the last word, a block that
\* ends before it starts, the older format from the first word to the last
\* (it overlaps every other block), and three blocks with a text of their
\* own, the last of them no string
RawBlocks(words) ==
    LET n == Len(words)
    IN  { IndexBlock(Num(n - 3), Num(n - 2)),
          IndexBlock(Num(n - 1), Num(n - 1)),
          IndexBlock(Num(n), Num(n)),
          IndexBlock(Num(n - 1), Num(n - 2)),
          LegacyBlock(Num(words[1].c), Num(words[n].c)),
          TextBlock(Num(n - 1), Num(n - 1), Str(InvalidAPIKey)),
          TextBlock(Num(n - 3), Num(n - 2),
                    Str(<<"d","o","n","c"," ","i","l"," ","p","a","r","t">>)),
          TextBlock(Num(n - 1), Num(n - 1), Obj) }

\* the sequences of 0 .. k entries
RECURSIVE BlockLists(_, _)
BlockLists(words, k) ==
    IF k = 0 THEN {<<>>}
    ELSE LET shorter == BlockLists(words, k - 1)
         IN  shorter \cup { Append(l, b) : l \in {x \in shorter : Len(x) = k - 1},
                                           b \in RawBlocks(words) }

\* what JSON.parse gives: null, an object without a blocks array, or an
\* object with one
Documents(words) ==
    { [kind |-> "null", blocks |-> <<>>], [kind |-> "object", blocks |-> <<>>] }
    \cup { [kind |-> "blocks", blocks |-> l] : l \in BlockLists(words, MaxBlocks) }

\* texts that are no JSON
Garbage == { <<"o","o","p","s">>, InvalidAPIKey }

\* the usage the generator reports, if any
Usages == { <<>>, << [prompt_tokens |-> 7, completion_tokens |-> 3] >> }

\* the error message of a rejected call, if the body carries one
ErrorBodies == { <<>>, << <<"Rate limit reached">> >>, << InvalidAPIKey \o <<" provided">> >> }

\* HTTP statuses of a rejected call
Statuses == { 401, 429 }

\* ------------------------------------------------------------------------
\* handlePositionBasedPartitioning (src/background.js): one attempt
\* ------------------------------------------------------------------------

\* the index a value names when used as a key of indexToCMap or of the word
\* array: a number, or a string that spells one (indexes below 10)
IndexOf(v, words) ==
    IF v.t = "number" THEN {v.n} \cap (0 .. Len(words) - 1)
    ELSE IF v.t = "string"
    THEN {k \in 0 .. Len(words) - 1 : v.s = NumText(k)}
    ELSE {}

\* lines 253-257: the index of every word, from 0, and its position
indexToCMap(words) == [i \in 0 .. Len(words) - 1 |-> words[i + 1].c]

\* lines 254-257: the words as the generator gets them
simplifiedWords(words) == [k \in DOMAIN words |-> [i |-> k - 1, w |-> words[k].text]]

\* a conversion that leaves every value as the generator gave it
KeepIndex(v, words) == v

\* indexToCMap[v] !== undefined ? indexToCMap[v] : v
MapIndex(v, words) ==
    IF IndexOf(v, words) /= {}
    THEN Num(indexToCMap(words)[CHOOSE k \in IndexOf(v, words) : TRUE])
    ELSE v

\* the number a value is compared as in the reconstruction loop
ToNumber(v) ==
    IF v.t = "number" THEN {v.n}
    ELSE IF v.t = "string" THEN {k \in 0 .. 9 : v.s = NumText(k)}
    ELSE {}

\* the texts of the words with index lo .. hi that exist, joined by spaces
WordsInBlock(words, lo, hi) ==
    LET from == IF lo < 0 THEN 0 ELSE lo
        to == Min(hi, Len(words) - 1)
    IN  IF from > to THEN <<>>
        ELSE JoinSpace([k \in 1 .. (to - from + 1) |-> words[from + k].text])

\* the map callback that converts one entry to {start_c, end_c, original,
\* translation}.  An entry whose start or end is neither a number nor a
\* string of digits gets the empty original here: the validator rejects it
\* and its original is never read.
ConvertBlock(block, words) ==
    LET startIndex == IF block.s /= Undefined THEN block.s ELSE block.start_c
        endIndex == IF block.e /= Undefined THEN block.e ELSE block.end_c
        given == OrElse(block.original, Str(<<>>))
        original ==
            IF ~Truthy(given) /\ startIndex /= Undefined /\ endIndex /= Undefined
               /\ ToNumber(startIndex) /= {} /\ ToNumber(endIndex) /= {}
            THEN Str(WordsInBlock(words,
                                  CHOOSE k \in ToNumber(startIndex) : TRUE,
                                  CHOOSE k \in ToNumber(endIndex) : TRUE))
            ELSE given
    IN  [start_c |-> MapIndex(startIndex, words),
         end_c |-> MapIndex(endIndex, words),
         original |-> original,
         translation |-> OrElse(OrElse(block.t, block.translation), Str(<<>>))]

ConvertBlocks(blocks, words) ==
    [k \in DOMAIN blocks |-> ConvertBlock(blocks[k], words)]

IsError(v) == v.severity = "error"

\* .map(v => v.message).join('; ')
RECURSIVE JoinMessages(_)
JoinMessages(vs) ==
    IF Len(vs) = 0 THEN <<>>
    ELSE IF Len(vs) = 1 THEN vs[1].message
    ELSE vs[1].message \o <<"; ">> \o JoinMessages(Tail(vs))

\* the Error message built from the violations of a retry-worthy result:
\* the messages of the errors, or when that is empty the first message
SemanticMessage(violations) ==
    IF JoinMessages(SelectSeq(violations, IsError)) /= <<>>
    THEN JoinMessages(SelectSeq(violations, IsError))
    ELSE violations[1].message

\* a result that reports no tokens whatever the reply said
ZeroUsage(usage) == [promptTokens |-> 0, completionTokens |-> 0]

\* lines 314-316 and 377-381: data.usage || { prompt_tokens: 0,
\* completion_tokens: 0 }, copied into parsed.tokenUsage
TokenUsage(usage) ==
    IF usage /= <<>>
    THEN [promptTokens |-> usage[1].prompt_tokens,
          completionTokens |-> usage[1].completion_tokens]
    ELSE [promptTokens |-> 0, completionTokens |-> 0]

\* lines 384-414 once the three validations are known: the record the
\* attempt works with
ValidatedWith(blocks, words, structuralValidation, coverage, semanticsThrows, semanticValidation) ==
    [blocks |-> blocks,
     words |-> words,
     structuralValidation |-> structuralValidation,
     coverageWarnings |-> coverage,
     semanticsThrows |-> semanticsThrows,
     semanticValidation |-> semanticValidation,
     semanticMessage |-> IF semanticValidation.shouldRetry
                         THEN SemanticMessage(semanticValidation.violations)
                         ELSE <<>>]

\* lines 368-384: the word list after the validations that ran
WordsAfter(structuralValidation, isArray, blocks, words) ==
    IF structuralValidation.valid
    THEN WordsAfterSemantics(blocks,
           WordsAfterCoverage(blocks,
             WordsAfterValidate([isArray |-> isArray, blocks |-> blocks], words)))
    ELSE WordsAfterValidate([isArray |-> isArray, blocks |-> blocks], words)

\* validations in which a gap warning fails the candidate
ValidatedGapless(isArray, blocks, words) ==
    ValidatedWith(blocks, words,
                  IF validateBlockCoverage(blocks, words) /= <<>>
                  THEN [valid |-> FALSE, error |-> <<"Gap detected">>]
                  ELSE validateLLMResponse([isArray |-> isArray, blocks |-> blocks], words),
                  validateBlockCoverage(blocks, words),
                  SemanticsThrows(blocks),
                  validateSemantics(blocks))

\* line 375: the coverage validation runs for a candidate that passed the
\* structural validation
CoverageOf(structuralValidation, blocks, words) ==
    IF structuralValidation.valid THEN validateBlockCoverage(blocks, words) ELSE <<>>

\* lines 366-384 for the converted blocks: the structural validation, the
\* coverage validation, whose warnings are logged and whose return value
\* (none) is not read, and the semantic validation
ValidatedBlocks(isArray, blocks, words) ==
    ValidatedWith(blocks,
                  WordsAfter(validateLLMResponse([isArray |-> isArray, blocks |-> blocks],
                                                 words), isArray, blocks, words),
                  validateLLMResponse([isArray |-> isArray, blocks |-> blocks], words),
                  CoverageOf(validateLLMResponse([isArray |-> isArray, blocks |-> blocks],
                                                 words), blocks, words),
                  SemanticsThrows(blocks),
                  validateSemantics(blocks))

\* lines 331-394 for a parsed document: the conversion and the three
\* validations, which read nothing but the document and the words
Validated(doc, words) ==
    ValidatedBlocks(doc.kind = "blocks", ConvertBlocks(doc.blocks, words), words)

\* Validated, computed once for every word list and document
ValidatedTable ==
    [words \in WordLists |-> [doc \in Documents(words) |-> Validated(doc, words)]]

\* a gate that lets every candidate through
GateOpen(structuralValidation) == TRUE

\* line 369: the candidate goes on only if structuralValidation.valid
StructurallyValid(structuralValidation) == structuralValidation.valid

\* a replacement test that also lets a tie replace the stored best
ReplacesOnTie(best, count) ==
    best = <<>> \/ count <= Len(best[1].semanticViolations)

\* line 397: !bestResult || violations.length <
\* (bestResult.semanticViolations || []).length
Replaces(best, count) ==
    best = <<>> \/ count < Len(best[1].semanticViolations)

\* lines 366-414 for a validated document v: what the attempt ends with.
\*   threw    the try block raised message; otherwise it returned parsed
\*   best     bestResult after the attempt
\*   passed   validateLLMResponse accepted the candidate
\* A result is [blocks, tokenUsage, semanticViolations]; hasViolations says
\* whether semanticViolations was set on it, and attempt which attempt made
\* it.
Attempt(v, kind, usage, n, best) ==
    LET semanticValidation == v.semanticValidation
        count == Len(semanticValidation.violations)
        fresh == [blocks |-> v.blocks, tokenUsage |-> TokenUsage(usage),
                  hasViolations |-> FALSE, semanticViolations |-> <<>>,
                  attempt |-> n]
        stored == [fresh EXCEPT !.hasViolations = TRUE,
                                !.semanticViolations = semanticValidation.violations]
        replaces == Replaces(best, count)
        failed(message, passed) ==
            [threw |-> TRUE, message |-> message, parsed |-> <<>>, best |-> best,
             passed |-> passed, count |-> 0, shouldRetry |-> FALSE]
    IN  IF kind = "null"
        THEN failed(<<"Cannot read properties of null (reading 'blocks')">>, FALSE)
        ELSE IF ~StructurallyValid(v.structuralValidation)
        THEN failed(<<"Structural: ">> \o v.structuralValidation.error, FALSE)
        ELSE IF v.semanticsThrows
        THEN failed(<<"toLowerCase is not a function">>, TRUE)
        ELSE [threw |-> semanticValidation.shouldRetry,
              message |-> IF semanticValidation.shouldRetry
                          THEN <<"Semantic: ">> \o v.semanticMessage
                          ELSE <<>>,
              parsed |-> << IF replaces THEN stored ELSE fresh >>,
              best |-> IF replaces THEN <<stored>> ELSE best,
              passed |-> TRUE, count |-> count,
              shouldRetry |-> semanticValidation.shouldRetry]

\* lines 331-414 for a parsed document
Candidate(doc, usage, words, n, best) ==
    Attempt(ValidatedTable[words][doc], doc.kind, usage, n, best)
\* ------------------------------------------------------------------------
\* State of one PARTITION_TEXT request
\* ------------------------------------------------------------------------

VARIABLES
    wordData,      \* request.wordData.words
    openaiApiKey,  \* whether chrome.storage.sync holds an API key
    pc,            \* "start", "fetch" (awaiting the generator), "sleep"
                   \* (awaiting the delay), "returned", "raised", "responded"
    attempt,       \* the loop counter
    bestResult,    \* <<>> for null, or <<result>>
    lastError,     \* <<>> for null, or the message of the last caught error
    outcome,       \* what the promise settled with
    response,      \* the responses the listener has sent
    requests,      \* the temperature of every generator call made
    waited,        \* the delay of every sleep that has completed
    hist,          \* what every finished attempt ended with
    call           \* a function applied on its own: its arguments and result

vars == <<wordData, openaiApiKey, pc, attempt, bestResult, lastError, outcome,
          response, requests, waited, hist, call>>

Pending == [kind |-> "pending", result |-> <<>>, error |-> <<>>]

Returned(result) == [kind |-> "result", result |-> <<result>>, error |-> <<>>]

Raised(message) == [kind |-> "error", result |-> <<>>, error |-> message]

\* what an attempt ended with: class says where it ended, status is the
\* HTTP status of a rejected call, passed whether validateLLMResponse
\* accepted its candidate, count the number of semantic violations
Ended(class, status, passed, count, shouldRetry) ==
    [class |-> class, status |-> status, passed |-> passed, count |-> count,
     shouldRetry |-> shouldRetry]

Init ==
    /\ wordData \in WordLists
    /\ openaiApiKey \in BOOLEAN
    /\ pc = "start"
    /\ attempt = 0
    /\ bestResult = <<>>
    /\ lastError = <<>>
    /\ outcome = Pending
    /\ response = <<>>
    /\ requests = <<>>
    /\ waited = <<>>
    /\ hist = <<>>
    /\ call = <<>>

\* a start that calls the generator without looking at the key
StartUnchecked ==
    /\ pc = "start"
    /\ pc' = "fetch"
    /\ attempt' = 1
    /\ requests' = Append(requests, getRetryConfig(1).temperature)
    /\ UNCHANGED <<wordData, openaiApiKey, bestResult, lastError, outcome,
                   response, waited, hist, call>>

\* lines 244-296: the key is read; without one the call raises, with one
\* the loop starts and attempt 1 calls the generator
Start ==
    /\ pc = "start"
    /\ IF ~openaiApiKey
       THEN /\ pc' = "raised"
            /\ outcome' = Raised(APIKeyNotFound
                                 \o <<". Please set it in the extension popup.">>)
            /\ UNCHANGED <<attempt, requests>>
       ELSE /\ pc' = "fetch"
            /\ attempt' = 1
            /\ requests' = Append(requests, getRetryConfig(1).temperature)
            /\ UNCHANGED outcome
    /\ UNCHANGED <<wordData, openaiApiKey, bestResult, lastError, response,
                   waited, hist, call>>

\* a return that hands out the stored best
ReturnBest(parsed, best, ended) ==
    /\ pc' = "returned"
    /\ outcome' = Returned(best[1])
    /\ bestResult' = best
    /\ hist' = Append(hist, ended)
    /\ UNCHANGED <<openaiApiKey, attempt, lastError, response,
                   requests, waited>>

\* line 405: return parsed
Return(parsed, best, ended) ==
    /\ pc' = "returned"
    /\ outcome' = Returned(parsed)
    /\ bestResult' = best
    /\ hist' = Append(hist, ended)
    /\ UNCHANGED <<openaiApiKey, attempt, lastError, response,
                   requests, waited>>

\* a test that finds every error retryable
AlwaysRetryable(message) == FALSE

\* lines 421-422: the errors the loop does not retry
NonRetryable(message) ==
    includes(message, InvalidAPIKey) \/ includes(message, APIKeyNotFound)

\* a catch block that hands out the stored best as soon as there is one
CatchReturningBest(message, best, ended) ==
    /\ lastError' = message
    /\ bestResult' = best
    /\ hist' = Append(hist, ended)
    /\ IF NonRetryable(message)
       THEN pc' = "raised" /\ outcome' = Raised(message)
       ELSE IF best /= <<>>
       THEN pc' = "returned" /\ outcome' = Returned(best[1])
       ELSE IF attempt < getMaxRetries
       THEN pc' = "sleep" /\ UNCHANGED outcome
       ELSE /\ pc' = "raised"
            /\ outcome' = Raised(<<"Failed after ">> \o NumText(getMaxRetries)
                                 \o <<" attempts: ">> \o message)
    /\ UNCHANGED <<openaiApiKey, attempt, response, requests, waited>>

\* lines 416-441: the catch block, and the code after the loop when this
\* was the last attempt
Catch(message, best, ended) ==
    /\ lastError' = message
    /\ bestResult' = best
    /\ hist' = Append(hist, ended)
    /\ IF NonRetryable(message)
       THEN pc' = "raised" /\ outcome' = Raised(message)
       ELSE IF attempt < getMaxRetries
       THEN pc' = "sleep" /\ UNCHANGED outcome
       ELSE IF best /= <<>>
       THEN pc' = "returned" /\ outcome' = Returned(best[1])
       ELSE /\ pc' = "raised"
            /\ outcome' = Raised(<<"Failed after ">> \o NumText(getMaxRetries)
                                 \o <<" attempts: ">> \o message)
    /\ UNCHANGED <<openaiApiKey, attempt, response, requests, waited>>

\* fetch rejects (no network), or the body of the reply is no JSON
FetchFails ==
    /\ pc = "fetch"
    /\ \E message \in { <<"Failed to fetch">>, <<"Unexpected end of JSON input">> } :
         Catch(message, bestResult, Ended("transport", 0, FALSE, 0, FALSE))
    /\ UNCHANGED <<wordData, call>>

\* lines 298-308: the generator answers with an error status
HttpError ==
    /\ pc = "fetch"
    /\ \E status \in Statuses, body \in ErrorBodies :
         LET errorMsg == IF body /= <<>> THEN body[1]
                         ELSE <<"OpenAI API request failed">>
             message == IF status = 401
                        THEN InvalidAPIKey \o <<": ">> \o errorMsg
                        ELSE <<"API error (">> \o NumText(status) \o <<"): ">>
                               \o errorMsg
         IN  Catch(message, bestResult, Ended("http", status, FALSE, 0, FALSE))
    /\ UNCHANGED <<wordData, call>>

\* lines 310-317: the reply has no choices[0].message.content string
MalformedReply ==
    /\ pc = "fetch"
    /\ Catch(<<"Cannot read properties of undefined">>, bestResult,
             Ended("shape", 200, FALSE, 0, FALSE))
    /\ UNCHANGED <<wordData, call>>

\* lines 317-329: the content, with or without a code fence, is no JSON.
\* The message of the SyntaxError is the engine's: current V8 quotes the
\* text in it, older engines name the position only.
ParseFails ==
    /\ pc = "fetch"
    /\ \E text \in Garbage, quoted \in BOOLEAN :
         Catch(<<"Failed to parse JSON response: ">>
                 \o (IF quoted
                     THEN <<"Unexpected token '", text[1], "', \"">> \o text
                            \o <<"\" is not valid JSON">>
                     ELSE <<"Unexpected token ", text[1],
                            " in JSON at position 0">>),
               bestResult, Ended("parse", 200, FALSE, 0, FALSE))
    /\ UNCHANGED <<wordData, call>>

\* lines 331-414 for the document and the usage of the reply
Parsed(doc, usage) ==
    \E r \in { Candidate(doc, usage, wordData, attempt, bestResult) } :
      \E ended \in { Ended(IF ~r.passed THEN "structural"
                             ELSE IF r.parsed = <<>> THEN "semantics-threw"
                             ELSE IF r.threw THEN "semantic" ELSE "accepted",
                             200, r.passed, r.count, r.shouldRetry) } :
        /\ wordData' = ValidatedTable[wordData][doc].words
        /\ IF r.threw THEN Catch(r.message, r.best, ended)
           ELSE Return(r.parsed[1], r.best, ended)

\* lines 331-414: the content parses
Reply ==
    /\ pc = "fetch"
    /\ \E doc \in Documents(wordData), usage \in Usages : Parsed(doc, usage)
    /\ UNCHANGED call

\* lines 426-431 and 271-296: the delay is over, the next attempt calls the
\* generator
Wake ==
    /\ pc = "sleep"
    /\ pc' = "fetch"
    /\ attempt' = attempt + 1
    /\ waited' = Append(waited, IF getRetryConfig(attempt).delay /= 0
                                THEN getRetryConfig(attempt).delay ELSE 1000)
    /\ requests' = Append(requests, getRetryConfig(attempt + 1).temperature)
    /\ UNCHANGED <<wordData, openaiApiKey, bestResult, lastError, outcome,
                   response, hist, call>>

\* a listener that reports success whatever the promise settled with
SendSuccess ==
    /\ pc \in {"returned", "raised"}
    /\ pc' = "responded"
    /\ response' = Append(response,
                          [success |-> TRUE, data |-> outcome.result,
                           error |-> outcome.error])
    /\ UNCHANGED <<wordData, openaiApiKey, attempt, bestResult, lastError,
                   outcome, requests, waited, hist, call>>

\* lines 76-85: the listener answers the request
SendResponse ==
    /\ pc \in {"returned", "raised"}
    /\ pc' = "responded"
    /\ response' = Append(response,
                          IF outcome.kind = "result"
                          THEN [success |-> TRUE, data |-> outcome.result,
                                error |-> <<>>]
                          ELSE [success |-> FALSE, data |-> <<>>,
                                error |-> outcome.error])
    /\ UNCHANGED <<wordData, openaiApiKey, attempt, bestResult, lastError,
                   outcome, requests, waited, hist, call>>

Next ==
    \/ Start
    \/ FetchFails
    \/ HttpError
    \/ MalformedReply
    \/ ParseFails
    \/ Reply
    \/ Wake
    \/ SendResponse

Spec == Init /\ [][Next]_vars

\* lines 289-329: the generator call of an attempt ends without a document
NoDocument == FetchFails \/ HttpError \/ MalformedReply \/ ParseFails

\* the same, where every step that can be taken is taken in the end: the
\* storage read (Start), every generator call and every delay timer (Wake)
\* complete, and the listener sends its response. A pending call enables
\* NoDocument and every way it ends, Reply included, disables it, so weak
\* fairness of NoDocument says that no call stays pending for ever.
SpecLive ==
    /\ Init /\ [][Next]_vars
    /\ WF_vars(Start) /\ WF_vars(NoDocument) /\ WF_vars(Wake) /\ WF_vars(SendResponse)

\* ------------------------------------------------------------------------
\* validateLLMResponse applied on its own
\* ------------------------------------------------------------------------

\* largest position a block names
MaxPos == 3

\* blocks in a list handed to the validator
MaxListed == 3

\* the words at the positions 0 .. MaxPos - 1
ValidatorWords == [k \in 1 .. MaxPos |-> [c |-> k - 1, text |-> <<"m","o","t">>]]

\* the words at the positions 0, 2, ..., MaxPos: no word has position 1
GappedWords ==
    [k \in 1 .. MaxPos |-> [c |-> IF k = 1 THEN 0 ELSE k, text |-> <<"m","o","t">>]]

\* a converted block from start_c to end_c
Block(start_c, end_c) ==
    [start_c |-> start_c, end_c |-> end_c, original |-> Str(<<"m","o","t">>),
     translation |-> Translated]

\* the converted blocks handed to the validator: every pair of positions
\* that is in order or out of order by one; a block without start_c and
\* without translation; a block with an empty translation at position 1; a
\* block whose end_c is null
ValidatorBlocks ==
    { Block(Num(p[1]), Num(p[2])) :
        p \in {q \in (0 .. MaxPos) \X (0 .. MaxPos) : q[1] <= q[2] + 1} }
    \cup { [Block(Undefined, Num(0)) EXCEPT !.translation = Undefined],
           [Block(Num(1), Num(1)) EXCEPT !.translation = Str(<<>>)],
           Block(Num(0), Null) }

\* the lists of 0 .. k of them, in every order
RECURSIVE ValidatorLists(_)
ValidatorLists(k) ==
    IF k = 0 THEN {<<>>}
    ELSE LET shorter == ValidatorLists(k - 1)
         IN  shorter \cup { Append(l, b) : l \in {x \in shorter : Len(x) = k - 1},
                                           b \in ValidatorBlocks }

\* the parsed replies handed to the validator: one without a blocks array,
\* and one for every list of up to k blocks
ValidatorInputs(k) ==
    { [isArray |-> FALSE, blocks |-> <<>>] }
    \cup { [isArray |-> TRUE, blocks |-> l] : l \in ValidatorLists(k) }

InitValidate ==
    /\ wordData \in {ValidatorWords, GappedWords}
    /\ openaiApiKey = TRUE
    /\ pc = "validate"
    /\ attempt = 0
    /\ bestResult = <<>>
    /\ lastError = <<>>
    /\ outcome = Pending
    /\ response = <<>>
    /\ requests = <<>>
    /\ waited = <<>>
    /\ hist = <<>>
    /\ call = [isArray |-> TRUE, blocks |-> <<>>, done |-> FALSE, valid |-> FALSE,
               error |-> <<>>, coverage |-> <<>>]

\* validateLLMResponse(parsed, words) and, for an accepted list, the
\* warnings of validateBlockCoverage(parsed.blocks, words)
Validate ==
    /\ pc = "validate"
    /\ pc' = "validated"
    /\ \E parsed \in ValidatorInputs(MaxListed) :
         \E r \in { validateLLMResponse(parsed, wordData) } :
           call' = [isArray |-> parsed.isArray, blocks |-> parsed.blocks,
                    done |-> TRUE, valid |-> r.valid, error |-> r.error,
                    coverage |-> CoverageOf(r, parsed.blocks, wordData)]
    /\ UNCHANGED <<wordData, openaiApiKey, attempt, bestResult, lastError,
                   outcome, response, requests, waited, hist>>

NextValidate == Validate

SpecValidate == InitValidate /\ [][NextValidate]_vars

\* ------------------------------------------------------------------------
\* validateSemantics applied on its own
\* ------------------------------------------------------------------------

\* blocks in a list handed to validateSemantics
MaxTexts == 3

\* the originals of the blocks: a text no rule objects to, a linking verb, a
\* punctuation mark, an absorbed discourse marker and a buried expression;
\* a linking verb on its own, a text that starts with a verb, three words
\* that end with a linking verb, a linking verb merged with its attribute,
\* and a dash between spaces
SemanticTexts ==
    { <<"r","e","s","t","e">>,
      <<"a"," ","b","u">>,
      <<"l","e"," ","c","h","a","t"," ","e","s","t">>,
      <<"r","e","s","t","e"," ","u","n"," ","d","eacute","f","i"," ","m","a","j","e","u","r">>,
      <<" ","mdash"," ">>,
      <<"l","e"," ","c","h","a","t">>,
      <<"i","l"," ","e","s","t">>,
      <<",">>,
      <<"d","o","n","c"," ","i","l"," ","p","a","r","t">>,
      <<"f","a","c","e"," ","agrave"," ","l","a"," ","c","r","i","s","e">> }

InitSemantics ==
    /\ wordData = ValidatorWords
    /\ openaiApiKey = TRUE
    /\ pc = "semantics"
    /\ attempt = 0
    /\ bestResult = <<>>
    /\ lastError = <<>>
    /\ outcome = Pending
    /\ response = <<>>
    /\ requests = <<>>
    /\ waited = <<>>
    /\ hist = <<>>
    /\ call = [blocks |-> <<>>, valid |-> FALSE, violations |-> <<>>,
               shouldRetry |-> FALSE]

\* validateSemantics(blocks, words)
Semantics ==
    /\ pc = "semantics"
    /\ pc' = "assessed"
    /\ \E n \in 0 .. MaxTexts :
         \E ts \in [1 .. n -> SemanticTexts] :
           \E blocks \in { [k \in 1 .. n |->
                             [start_c |-> Num(k - 1), end_c |-> Num(k - 1),
                              original |-> Str(ts[k]), translation |-> Translated]] } :
             \E r \in { validateSemantics(blocks) } :
               call' = [blocks |-> blocks, valid |-> r.valid,
                        violations |-> r.violations, shouldRetry |-> r.shouldRetry]
    /\ UNCHANGED <<wordData, openaiApiKey, attempt, bestResult, lastError,
                   outcome, response, requests, waited, hist>>

\* what follows a discourse marker in a block: further words of content,
\* with or without a comma after the marker
MarkerContinuations ==
    { <<" ","i","l"," ","p","a","r","t">>, <<",", " ","i","l"," ","p","a","r","t">>,
      <<" ","v","i","t","e">> }

\* validateSemantics(blocks, words) for a list whose last block starts with
\* an entry of DISCOURSE_MARKERS, after at most one other block
SemanticsOfMarker ==
    /\ pc = "semantics"
    /\ pc' = "assessed"
    /\ \E m \in DOMAIN DISCOURSE_MARKERS, rest \in MarkerContinuations,
          before \in { <<>>, << <<"l","e"," ","c","h","a","t">> >>, << <<",">> >> } :
         \E ts \in { Append(before, DISCOURSE_MARKERS[m] \o rest) } :
           \E blocks \in { [k \in DOMAIN ts |->
                             [start_c |-> Num(k - 1), end_c |-> Num(k - 1),
                              original |-> Str(ts[k]), translation |-> Translated]] } :
             \E r \in { validateSemantics(blocks) } :
               call' = [blocks |-> blocks, valid |-> r.valid,
                        violations |-> r.violations, shouldRetry |-> r.shouldRetry]
    /\ UNCHANGED <<wordData, openaiApiKey, attempt, bestResult, lastError,
                   outcome, response, requests, waited, hist>>

NextSemantics == Semantics \/ SemanticsOfMarker

SpecSemantics == InitSemantics /\ [][NextSemantics]_vars


\* ------------------------------------------------------------------------
\* The index map and the conversion of one entry, applied on their own
\* ------------------------------------------------------------------------

\* words in a list whose indexes are mapped
MaxMapped == 3

\* largest position of a word in such a list
MaxC == 3

\* the lists of n words at distinct positions, in any order; the text of a
\* word names its position
RECURSIVE MappedLists(_)
MappedLists(n) ==
    IF n = 0 THEN {<<>>}
    ELSE { Append(l, [c |-> p, text |-> <<"w", ToString(p)>>]) :
             l \in MappedLists(n - 1), p \in 0 .. MaxC }

DistinctPositions(words) ==
    \A j, k \in DOMAIN words : j /= k => words[j].c /= words[k].c

MappedWords ==
    { l \in UNION { MappedLists(n) : n \in 1 .. MaxMapped } : DistinctPositions(l) }

\* the entries handed to the conversion: an index pair, or a position pair in
\* the older format that names two words of the list
MappedBlocks(words) ==
    { IndexBlock(Num(s), Num(e)) : s, e \in 0 .. Len(words) - 1 }
    \cup { LegacyBlock(Num(words[j].c), Num(words[k].c)) : j, k \in DOMAIN words }

InitRemap ==
    /\ wordData \in MappedWords
    /\ openaiApiKey = TRUE
    /\ pc = "remap"
    /\ attempt = 0
    /\ bestResult = <<>>
    /\ lastError = <<>>
    /\ outcome = Pending
    /\ response = <<>>
    /\ requests = <<>>
    /\ waited = <<>>
    /\ hist = <<>>
    /\ call = <<>>

\* lines 251-257 and 335-364 for one entry, and for the entries that name
\* every index of simplifiedWords once
Remap ==
    /\ pc = "remap"
    /\ pc' = "remapped"
    /\ \E block \in MappedBlocks(wordData) :
         call' = [simplified |-> simplifiedWords(wordData),
                  block |-> block,
                  converted |-> ConvertBlock(block, wordData),
                  identity |->
                    ConvertBlocks([k \in DOMAIN wordData |->
                                     IndexBlock(Num(simplifiedWords(wordData)[k].i),
                                                Num(simplifiedWords(wordData)[k].i))],
                                  wordData)]
    /\ UNCHANGED <<wordData, openaiApiKey, attempt, bestResult, lastError,
                   outcome, response, requests, waited, hist>>

NextRemap == Remap

SpecRemap == InitRemap /\ [][NextRemap]_vars

\* ------------------------------------------------------------------------
\* Two invocations of handlePositionBasedPartitioning at the same time
\* ------------------------------------------------------------------------

\* the word lists of the two requests: the same paragraph texts at
\* different positions
PairWords == [i \in 1 .. 2 |-> CHOOSE w \in WordLists : w[1].c = i - 1]

\* what a generator call of an invocation ends with: the fetch rejects, the
\* generator answers 401, or it sends one of three documents: two blocks
\* with two violations, one block with one violation, one block with none
PairEvents(words) ==
    LET n == Len(words)
        usage == << [prompt_tokens |-> 7, completion_tokens |-> 3] >>
        document(l) == [kind |-> "doc", doc |-> [kind |-> "blocks", blocks |-> l],
                        usage |-> usage]
    IN  { [kind |-> "fail", doc |-> [kind |-> "null", blocks |-> <<>>], usage |-> <<>>],
          [kind |-> "unauthorized", doc |-> [kind |-> "null", blocks |-> <<>>],
           usage |-> <<>>],
          document(<<IndexBlock(Num(n - 3), Num(n - 2)), IndexBlock(Num(n - 1), Num(n - 1))>>),
          document(<<IndexBlock(Num(n - 1), Num(n - 1))>>),
          document(<<IndexBlock(Num(n - 3), Num(n - 2))>>) }

\* the variables of one invocation (lines 243-270) at its start; events is
\* the record of what its generator calls ended with
Invocation(words) ==
    [words |-> words, pc |-> "start", attempt |-> 0, lastError |-> <<>>,
     outcome |-> Pending, events |-> <<>>]

\* lines 416-441 for an invocation: the catch block, and the code after the
\* loop when this was the last attempt
Caught(st, best, message) ==
    [st |-> [st EXCEPT
               !.lastError = message,
               !.pc = IF NonRetryable(message) THEN "raised"
                      ELSE IF st.attempt < getMaxRetries THEN "sleep"
                      ELSE IF best /= <<>> THEN "returned" ELSE "raised",
               !.outcome = IF NonRetryable(message) THEN Raised(message)
                           ELSE IF st.attempt < getMaxRetries THEN st.outcome
                           ELSE IF best /= <<>> THEN Returned(best[1])
                           ELSE Raised(<<"Failed after ">> \o NumText(getMaxRetries)
                                       \o <<" attempts: ">> \o message)],
     best |-> best]

\* lines 366-432 for an invocation whose candidate gave r
Settled(st, r) ==
    IF r.threw THEN Caught(st, r.best, r.message)
    ELSE [st |-> [st EXCEPT !.pc = "returned", !.outcome = Returned(r.parsed[1])],
          best |-> r.best]

\* lines 286-432 for an invocation with the stored best: one generator call
\* and what follows it
AttemptStep(st, best, ev) ==
    IF ev.kind = "fail" THEN Caught(st, best, <<"Failed to fetch">>)
    ELSE IF ev.kind = "unauthorized"
    THEN Caught(st, best, InvalidAPIKey \o <<": ">> \o <<"OpenAI API request failed">>)
    ELSE Settled(st, Candidate(ev.doc, ev.usage, st.words, st.attempt, best))

\* one bestResult for both invocations
SharedBest(i) == 1

\* line 269: bestResult is declared in the body of the function, so that
\* invocation i has its own
BestOf(i) == i

InitPair ==
    /\ wordData = PairWords[1]
    /\ openaiApiKey = TRUE
    /\ pc = "pair"
    /\ attempt = 0
    /\ bestResult = <<>>
    /\ lastError = <<>>
    /\ outcome = Pending
    /\ response = <<>>
    /\ requests = <<>>
    /\ waited = <<>>
    /\ hist = <<>>
    /\ call = [inst |-> [i \in 1 .. 2 |-> Invocation(PairWords[i])],
               best |-> [i \in 1 .. 2 |-> <<>>]]

\* lines 244-271: an invocation has read the key and enters the loop
PairStart ==
    /\ \E i \in 1 .. 2 :
         /\ call.inst[i].pc = "start"
         /\ call' = [call EXCEPT !.inst[i].pc = "fetch", !.inst[i].attempt = 1]
    /\ UNCHANGED <<wordData, openaiApiKey, pc, attempt, bestResult, lastError,
                   outcome, response, requests, waited, hist>>

\* lines 286-432: a generator call of an invocation ends
PairSettle ==
    /\ \E i \in 1 .. 2 :
         /\ call.inst[i].pc = "fetch"
         /\ \E ev \in PairEvents(call.inst[i].words) :
              \E r \in { AttemptStep(call.inst[i], call.best[BestOf(i)], ev) } :
                call' = [inst |-> [call.inst EXCEPT
                                     ![i] = [r.st EXCEPT !.events = Append(@, ev)]],
                         best |-> [call.best EXCEPT ![BestOf(i)] = r.best]]
    /\ UNCHANGED <<wordData, openaiApiKey, pc, attempt, bestResult, lastError,
                   outcome, response, requests, waited, hist>>

\* lines 426-431 and 271: the delay of an invocation is over
PairWake ==
    /\ \E i \in 1 .. 2 :
         /\ call.inst[i].pc = "sleep"
         /\ call' = [call EXCEPT !.inst[i].pc = "fetch",
                                 !.inst[i].attempt = call.inst[i].attempt + 1]
    /\ UNCHANGED <<wordData, openaiApiKey, pc, attempt, bestResult, lastError,
                   outcome, response, requests, waited, hist>>

NextPair == PairStart \/ PairSettle \/ PairWake

SpecPair == InitPair /\ [][NextPair]_vars

\* ------------------------------------------------------------------------
\* The caller's word list across an invocation and across the validators
\* ------------------------------------------------------------------------

\* the block lists handed to a validator called on its own: none, or one
\* converted entry
CalledWith(words) ==
    { <<>> } \cup { <<ConvertBlock(b, words)>> : b \in MappedBlocks(words) }

\* either an invocation is about to start on a sorted word list, or the
\* validators are about to be called with a word list in any order; before
\* is the word list as the caller handed it over
InitFrame ==
    /\ \/ pc = "start" /\ wordData \in WordLists
       \/ pc = "calls" /\ wordData \in MappedWords
    /\ openaiApiKey \in BOOLEAN
    /\ attempt = 0
    /\ bestResult = <<>>
    /\ lastError = <<>>
    /\ outcome = Pending
    /\ response = <<>>
    /\ requests = <<>>
    /\ waited = <<>>
    /\ hist = <<>>
    /\ call = [fn |-> "none", blocks |-> <<>>, before |-> wordData]

\* validateLLMResponse(parsed, words)
CallValidate ==
    /\ pc = "calls"
    /\ pc' = "called"
    /\ \E blocks \in CalledWith(wordData) :
         /\ wordData' = WordsAfterValidate([isArray |-> TRUE, blocks |-> blocks], wordData)
         /\ call' = [call EXCEPT !.fn = "validateLLMResponse", !.blocks = blocks]
    /\ UNCHANGED <<openaiApiKey, attempt, bestResult, lastError, outcome,
                   response, requests, waited, hist>>

\* validateBlockCoverage(blocks, words)
CallCoverage ==
    /\ pc = "calls"
    /\ pc' = "called"
    /\ \E blocks \in CalledWith(wordData) :
         /\ wordData' = WordsAfterCoverage(blocks, wordData)
         /\ call' = [call EXCEPT !.fn = "validateBlockCoverage", !.blocks = blocks]
    /\ UNCHANGED <<openaiApiKey, attempt, bestResult, lastError, outcome,
                   response, requests, waited, hist>>

\* validateSemantics(blocks, words)
CallSemantics ==
    /\ pc = "calls"
    /\ pc' = "called"
    /\ \E blocks \in CalledWith(wordData) :
         /\ wordData' = WordsAfterSemantics(blocks, wordData)
         /\ call' = [call EXCEPT !.fn = "validateSemantics", !.blocks = blocks]
    /\ UNCHANGED <<openaiApiKey, attempt, bestResult, lastError, outcome,
                   response, requests, waited, hist>>

NextFrame == Next \/ CallValidate \/ CallCoverage \/ CallSemantics

SpecFrame == InitFrame /\ [][NextFrame]_vars

\* ------------------------------------------------------------------------
\* The usage every reply reported
\* ------------------------------------------------------------------------

\* lines 310-316: the reply of the attempt carries a document and a usage;
\* call keeps, for every reply, the attempt and the usage it reported
ReplyReporting ==
    /\ pc = "fetch"
    /\ \E doc \in Documents(wordData), usage \in Usages :
         /\ Parsed(doc, usage)
         /\ call' = Append(call, [attempt |-> attempt, usage |-> usage])

NextUsage ==
    \/ Start
    \/ FetchFails
    \/ HttpError
    \/ MalformedReply
    \/ ParseFails
    \/ ReplyReporting
    \/ Wake
    \/ SendResponse

SpecUsage == Init /\ [][NextUsage]_vars

\* ------------------------------------------------------------------------
\* The loop under the escalating and under the constant retry table
\* ------------------------------------------------------------------------

\* CONFIG.retry of the content script's configuration: temperature 1 in
\* every entry (in tenths), the delays of RETRY_CONFIG
CONFIG_retry ==
    << [temperature |-> 10, delay |-> 0],
       [temperature |-> 10, delay |-> 1000],
       [temperature |-> 10, delay |-> 2000] >>

\* regime 1 is the escalating table, regime 2 the constant one
Regimes == << RETRY_CONFIG, CONFIG_retry >>

\* getRetryConfig(attempt) and getMaxRetries() over a table
RetryConfigOf(table, n) == table[Min(n - 1, Len(table) - 1) + 1]

MaxRetriesOf(table) == Len(table)

\* a delay taken from the temperature of the entry
DelayByTemperature(retryConfig) == retryConfig.temperature * 100

\* line 428: retryConfig.delay || 1000
RetryDelay(retryConfig) == IF retryConfig.delay /= 0 THEN retryConfig.delay ELSE 1000

\* lines 271-284: the loop builds the request of the attempt
Requested(table, st) ==
    [st EXCEPT !.requests = Append(@, RetryConfigOf(table, st.attempt).temperature)]

\* lines 416-441 under a table
RegimeCaught(table, st, best, message) ==
    LET fatal == NonRetryable(message)
        more == st.attempt < MaxRetriesOf(table)
    IN  [st |-> [st EXCEPT
                   !.lastError = message,
                   !.pc = IF fatal THEN "raised" ELSE IF more THEN "sleep"
                          ELSE IF best /= <<>> THEN "returned" ELSE "raised",
                   !.outcome = IF fatal THEN Raised(message)
                               ELSE IF more THEN st.outcome
                               ELSE IF best /= <<>> THEN Returned(best[1])
                               ELSE Raised(<<"Failed after ">>
                                           \o NumText(MaxRetriesOf(table))
                                           \o <<" attempts: ">> \o message)],
         best |-> best]

\* lines 286-432 under a table: one generator call and what follows it
RegimeStep(table, st, best, ev) ==
    IF ev.kind = "fail" THEN RegimeCaught(table, st, best, <<"Failed to fetch">>)
    ELSE IF ev.kind = "unauthorized"
    THEN RegimeCaught(table, st, best,
                      InvalidAPIKey \o <<": ">> \o <<"OpenAI API request failed">>)
    ELSE LET r == Candidate(ev.doc, ev.usage, st.words, st.attempt, best)
         IN  IF r.threw THEN RegimeCaught(table, st, r.best, r.message)
             ELSE [st |-> [st EXCEPT !.pc = "returned",
                                     !.outcome = Returned(r.parsed[1])],
                   best |-> r.best]

\* two invocations on the same words, one under each table
InitRegime ==
    /\ wordData \in { PairWords[1], PairWords[2] }
    /\ openaiApiKey = TRUE
    /\ pc = "regimes"
    /\ attempt = 0
    /\ bestResult = <<>>
    /\ lastError = <<>>
    /\ outcome = Pending
    /\ response = <<>>
    /\ requests = <<>>
    /\ waited = <<>>
    /\ hist = <<>>
    /\ call = [inst |-> [i \in 1 .. 2 |->
                           [words |-> wordData, pc |-> "start", attempt |-> 0,
                            lastError |-> <<>>, outcome |-> Pending,
                            requests |-> <<>>, waited |-> <<>>]],
               best |-> [i \in 1 .. 2 |-> <<>>],
               events |-> <<>>]

\* lines 244-284: both invocations enter the loop
RegimeStart ==
    /\ call.inst[1].pc = "start"
    /\ call' = [call EXCEPT
                  !.inst = [i \in 1 .. 2 |->
                              Requested(Regimes[i],
                                        [call.inst[i] EXCEPT !.pc = "fetch",
                                                             !.attempt = 1])]]
    /\ UNCHANGED <<wordData, openaiApiKey, pc, attempt, bestResult, lastError,
                   outcome, response, requests, waited, hist>>

\* lines 286-432: the generator gives both invocations the same response
RegimeSettle ==
    /\ call.inst[1].pc = "fetch"
    /\ \E ev \in PairEvents(wordData) :
         \E r \in { [i \in 1 .. 2 |->
                      IF call.inst[i].pc = "fetch"
                      THEN RegimeStep(Regimes[i], call.inst[i], call.best[i], ev)
                      ELSE [st |-> call.inst[i], best |-> call.best[i]]] } :
           call' = [inst |-> [i \in 1 .. 2 |-> r[i].st],
                    best |-> [i \in 1 .. 2 |-> r[i].best],
                    events |-> Append(call.events, ev)]
    /\ UNCHANGED <<wordData, openaiApiKey, pc, attempt, bestResult, lastError,
                   outcome, response, requests, waited, hist>>

\* lines 426-431 and 271-284: the delays are over, the next attempts start
RegimeWake ==
    /\ call.inst[1].pc = "sleep"
    /\ call' = [call EXCEPT
                  !.inst = [i \in 1 .. 2 |->
                    IF call.inst[i].pc /= "sleep" THEN call.inst[i]
                    ELSE Requested(Regimes[i],
                           [call.inst[i] EXCEPT
                              !.pc = "fetch",
                              !.attempt = @ + 1,
                              !.waited = Append(@, RetryDelay(
                                  RetryConfigOf(Regimes[i], call.inst[i].attempt)))])]]
    /\ UNCHANGED <<wordData, openaiApiKey, pc, attempt, bestResult, lastError,
                   outcome, response, requests, waited, hist>>

NextRegime == RegimeStart \/ RegimeSettle \/ RegimeWake

SpecRegime == InitRegime /\ [][NextRegime]_vars

\* ------------------------------------------------------------------------
\* The translation cache (src/background.js, lines 6-71 and 87-118)
\* ------------------------------------------------------------------------

CACHE_PREFIX ==
    <<"t","r","a","n","s","l","a","t","i","o","n","_","c","a","c","h","e","_">>

CACHE_VERSION == 1

\* cache operations in one run
MaxOps == 4

\* the pages, the paragraph lists a page stores, and the keys of
\* chrome.storage.local: one for every page and one that is no cache key
Urls == { <<"a">>, <<"a","b">> }

ParagraphLists == { <<"p">>, <<"p","q">> }

\* a key that ignores the page
getSharedKey(url) == CACHE_PREFIX

\* getCacheKey(url)
getCacheKey(url) == CACHE_PREFIX \o url

StorageKeys == { getCacheKey(url) : url \in Urls } \cup { <<"s","e","e","n">> }

\* a read that takes whatever is stored under the key
cachedAnyVersion(storage, url) == storage[getCacheKey(url)]

\* getCachedTranslations(url): <<>> is null
getCachedTranslations(storage, url) ==
    LET cached == storage[getCacheKey(url)]
    IN  IF cached /= <<>> /\ cached[1].version = CACHE_VERSION THEN cached ELSE <<>>

\* storage holds what an older release left: nothing, or an entry of version
\* 0 for the first page; live[url] is what setCachedTranslations stored for
\* the page and no clear has removed
InitCache ==
    /\ wordData = <<>>
    /\ openaiApiKey = TRUE
    /\ pc = "cache"
    /\ attempt = 0
    /\ bestResult = <<>>
    /\ lastError = <<>>
    /\ outcome = Pending
    /\ response = <<>>
    /\ requests = <<>>
    /\ waited = <<>>
    /\ hist = <<>>
    /\ \E old \in { <<>>, << [version |-> 0, timestamp |-> 0, paragraphs |-> <<"p">>] >> } :
         call = [storage |-> [k \in StorageKeys |->
                                IF k = getCacheKey(<<"a">>) THEN old
                                ELSE IF k = <<"s","e","e","n">>
                                THEN << [version |-> 1, timestamp |-> 0,
                                         paragraphs |-> <<>>] >>
                                ELSE <<>>],
                 live |-> [u \in Urls |-> <<>>],
                 clearing |-> <<>>,
                 got |-> <<>>,
                 cleared |-> <<>>,
                 ops |-> 0]

\* SET_CACHED_TRANSLATIONS: chrome.storage.local.set resolves or rejects
SetCached ==
    /\ pc = "cache"
    /\ call.ops < MaxOps
    /\ \E url \in Urls, paragraphs \in ParagraphLists, resolves \in BOOLEAN :
         \E cacheData \in { [version |-> CACHE_VERSION, timestamp |-> call.ops + 1,
                             paragraphs |-> paragraphs] } :
           call' = [call EXCEPT
                      !.ops = @ + 1,
                      !.storage = IF resolves
                                  THEN [@ EXCEPT ![getCacheKey(url)] = <<cacheData>>]
                                  ELSE @,
                      !.live = IF resolves THEN [@ EXCEPT ![url] = <<cacheData>>] ELSE @]
    /\ UNCHANGED <<wordData, openaiApiKey, pc, attempt, bestResult, lastError,
                   outcome, response, requests, waited, hist>>

\* GET_CACHED_TRANSLATIONS: the listener sends what getCachedTranslations
\* resolves with; got keeps it next to what was live for the page
GetCached ==
    /\ pc = "cache"
    /\ call.ops < MaxOps
    /\ \E url \in Urls :
         call' = [call EXCEPT
                    !.ops = @ + 1,
                    !.got = << [url |-> url,
                                data |-> getCachedTranslations(call.storage, url),
                                live |-> call.live[url]] >>]
    /\ UNCHANGED <<wordData, openaiApiKey, pc, attempt, bestResult, lastError,
                   outcome, response, requests, waited, hist>>

\* CLEAR_CACHE, lines 62-63: the keys of the cache are read
ClearRead ==
    /\ pc = "cache"
    /\ call.ops < MaxOps
    /\ call.clearing = <<>>
    /\ call' = [call EXCEPT
                  !.ops = @ + 1,
                  !.clearing = << { k \in StorageKeys :
                                      /\ call.storage[k] /= <<>>
                                      /\ startsWith(k, CACHE_PREFIX) } >>]
    /\ UNCHANGED <<wordData, openaiApiKey, pc, attempt, bestResult, lastError,
                   outcome, response, requests, waited, hist>>

\* CLEAR_CACHE, lines 65-70: the keys read are removed and counted
ClearRemove ==
    /\ pc = "cache"
    /\ call.clearing /= <<>>
    /\ call' = [call EXCEPT
                  !.clearing = <<>>,
                  !.cleared = << Cardinality(call.clearing[1]) >>,
                  !.storage = [k \in StorageKeys |->
                                 IF k \in call.clearing[1] THEN <<>> ELSE @[k]],
                  !.live = [u \in Urls |->
                              IF getCacheKey(u) \in call.clearing[1] THEN <<>> ELSE @[u]]]
    /\ UNCHANGED <<wordData, openaiApiKey, pc, attempt, bestResult, lastError,
                   outcome, response, requests, waited, hist>>

NextCache == SetCached \/ GetCached \/ ClearRead \/ ClearRemove

SpecCache == InitCache /\ [][NextCache]_vars

\* ------------------------------------------------------------------------
\* processParagraphs of the content script (src/unnamed/part_003)
\* ------------------------------------------------------------------------

\* paragraphs of a page, and calls of processParagraphs in one page load
MaxParagraphs == 3

MaxCalls == 3

\* what GET_CACHED_TRANSLATIONS resolves with: <<>> is null (or a rejected
\* message), otherwise the paragraphs of the entry, each with responseData
\* null (<<>>) or not
CachedData ==
    { <<>> } \cup { <<l>> : l \in UNION { [1 .. k -> { <<>>, <<"r">> }] : k \in 0 .. MaxParagraphs } }

\* a test that always asks the generator
cacheIgnored(cachedData) == FALSE

\* line 1201: cachedData && cachedData.paragraphs && cachedData.paragraphs.length > 0
cacheUsable(cachedData) == cachedData /= <<>> /\ Len(cachedData[1]) > 0

\* a gate that lets every call through
ungated(c) == FALSE

\* lines 1172-1173: hasProcessedInitially || isProcessing
gated(c) == c.hasProcessedInitially \/ c.isProcessing

\* lines 288-289: the page has loaded
InitParagraphs ==
    /\ wordData = <<>>
    /\ openaiApiKey = TRUE
    /\ pc = "page"
    /\ attempt = 0
    /\ bestResult = <<>>
    /\ lastError = <<>>
    /\ outcome = Pending
    /\ response = <<>>
    /\ requests = <<>>
    /\ waited = <<>>
    /\ hist = <<>>
    /\ call = [hasProcessedInitially |-> FALSE, isProcessing |-> FALSE,
               at |-> "idle", n |-> 0, i |-> 0, cachedData |-> <<>>,
               answered |-> FALSE, paragraphsToCache |-> <<>>, log |-> <<>>,
               calls |-> 0, started |-> 0, stored |-> FALSE]

\* lines 1171-1198: processParagraphs is called; it returns at once, or sets
\* the two flags and asks for the cached translations of the page
processParagraphs ==
    /\ pc = "page"
    /\ call.calls < MaxCalls
    /\ \E found \in 0 .. MaxParagraphs, limitSingleParagraph \in BOOLEAN :
         \E n \in { IF limitSingleParagraph THEN Min(found, 1) ELSE found } :
           call' = IF gated(call) \/ n = 0
                   THEN [call EXCEPT !.calls = @ + 1]
                   ELSE [call EXCEPT !.calls = @ + 1, !.started = @ + 1,
                                     !.hasProcessedInitially = TRUE,
                                     !.isProcessing = TRUE,
                                     !.at = "cache", !.n = n, !.i = 0,
                                     !.paragraphsToCache = <<>>]
    /\ UNCHANGED <<wordData, openaiApiKey, pc, attempt, bestResult, lastError,
                   outcome, response, requests, waited, hist>>

\* lines 1194-1232 and 1323: the cache answers; a usable entry is rendered
\* and the run ends, otherwise the loop over the paragraphs starts
CacheAnswers ==
    /\ call.at = "cache"
    /\ \E cachedData \in CachedData :
         call' = [call EXCEPT
                    !.cachedData = cachedData,
                    !.answered = TRUE,
                    !.at = IF cacheUsable(cachedData) THEN "done" ELSE "loop",
                    !.isProcessing = ~cacheUsable(cachedData)]
    /\ UNCHANGED <<wordData, openaiApiKey, pc, attempt, bestResult, lastError,
                   outcome, response, requests, waited, hist>>

\* lines 1241-1251 and 1297-1304: the next paragraph; with words a
\* PARTITION_TEXT request is sent, without words null is kept for it
NextParagraph ==
    /\ call.at = "loop"
    /\ call.i < call.n
    /\ \E words \in BOOLEAN :
         call' = IF words
                 THEN [call EXCEPT !.at = "await",
                                   !.log = Append(@, [kind |-> "request", i |-> call.i])]
                 ELSE [call EXCEPT !.i = @ + 1,
                                   !.paragraphsToCache = Append(@, <<>>)]
    /\ UNCHANGED <<wordData, openaiApiKey, pc, attempt, bestResult, lastError,
                   outcome, response, requests, waited, hist>>

\* lines 1251-1296: the response to the request arrives, a result or an
\* error
ResponseArrives ==
    /\ call.at = "await"
    /\ \E success \in BOOLEAN :
         call' = [call EXCEPT
                    !.at = "loop",
                    !.i = @ + 1,
                    !.log = Append(@, [kind |-> "response", i |-> call.i]),
                    !.paragraphsToCache = Append(@, IF success THEN <<"r">> ELSE <<>>)]
    /\ UNCHANGED <<wordData, openaiApiKey, pc, attempt, bestResult, lastError,
                   outcome, response, requests, waited, hist>>

\* lines 1308-1324: after the last paragraph the results are stored when
\* there is one, and the run ends
LoopEnds ==
    /\ \/ call.at = "loop" /\ call.i = call.n
       \/ call.at = "store"
    /\ call' = IF call.at = "loop"
                  /\ \E k \in DOMAIN call.paragraphsToCache : call.paragraphsToCache[k] /= <<>>
               THEN [call EXCEPT !.at = "store"]
               ELSE [call EXCEPT !.at = "done", !.isProcessing = FALSE,
                                 !.stored = (call.at = "store")]
    /\ UNCHANGED <<wordData, openaiApiKey, pc, attempt, bestResult, lastError,
                   outcome, response, requests, waited, hist>>

NextParagraphs ==
    processParagraphs \/ CacheAnswers \/ NextParagraph \/ ResponseArrives \/ LoopEnds

SpecParagraphs == InitParagraphs /\ [][NextParagraphs]_vars

\* ------------------------------------------------------------------------
\* navigateMeaningBlocks of the content script (src/unnamed/part_003)
\* ------------------------------------------------------------------------

\* in tenths of a second
DOUBLE_PRESS_THRESHOLD == 3

\* meaning blocks on the page, and presses of the arrow key in one run
MaxBoundaries == 3

MaxPresses == 4

\* getBlockBoundaries() for a page with n blocks: block i covers the
\* positions 3i and 3i + 1, position 3i + 2 lies between two blocks
Boundaries(n) == [i \in 1 .. n |-> [startC |-> 3 * (i - 1), endC |-> 3 * (i - 1) + 1]]

\* findBlockIndex(boundaries, position), counted from 0
findBlockIndex(boundaries, position) ==
    IF Len(boundaries) = 0 THEN 0 - 1
    ELSE IF position < 0 THEN 0
    ELSE LET hits == { i \in DOMAIN boundaries :
                         \/ position >= boundaries[i].startC /\ position <= boundaries[i].endC
                         \/ position < boundaries[i].startC }
         IN  IF hits = {} THEN Len(boundaries) - 1
             ELSE (CHOOSE i \in hits : \A j \in hits : i <= j) - 1

\* a target one block away whatever the count
targetOfOnePress(direction, baseIndex, count, length) ==
    IF direction = "left" THEN baseIndex
    ELSE IF baseIndex + 1 <= length - 1 THEN baseIndex + 1 ELSE length - 1

\* lines 2236-2243: Math.max(0, baseIndex - (count - 1)) for left,
\* Math.min(boundaries.length - 1, baseIndex + count) for right
targetIndexOf(direction, baseIndex, count, length) ==
    IF direction = "left"
    THEN (IF baseIndex - (count - 1) >= 0 THEN baseIndex - (count - 1) ELSE 0)
    ELSE Min(length - 1, baseIndex + count)

\* lines 1997-2002: the state of one arrow key; since is the time since the
\* last press of the key, capped at the threshold (lastTime is 0 at first);
\* presses, base, seeks and lastSeek record the presses of the running
\* sequence, the block at its first press and the seeks made
InitNavigation ==
    /\ wordData = <<>>
    /\ openaiApiKey = TRUE
    /\ pc = "navigation"
    /\ attempt = 0
    /\ bestResult = <<>>
    /\ lastError = <<>>
    /\ outcome = Pending
    /\ response = <<>>
    /\ requests = <<>>
    /\ waited = <<>>
    /\ hist = <<>>
    /\ \E direction \in {"left", "right"}, n \in 0 .. MaxBoundaries,
          position \in (0 - 1) .. (3 * MaxBoundaries - 1) :
         /\ position < 3 * n
         /\ call = [direction |-> direction, length |-> n, position |-> position,
                    since |-> DOUBLE_PRESS_THRESHOLD, count |-> 0,
                    baseIndex |-> 0 - 1, seekTimer |-> <<>>,
                    pressed |-> 0, presses |-> 0, base |-> 0 - 1, seeks |-> 0,
                    lastSeek |-> <<>>]

\* lines 2206-2264: the arrow key is pressed
navigateMeaningBlocks ==
    /\ pc = "navigation"
    /\ call.pressed < MaxPresses
    /\ LET isRapidPress == call.since < DOUBLE_PRESS_THRESHOLD
           current == findBlockIndex(Boundaries(call.length), call.position)
           continues == isRapidPress /\ call.count > 0
           count == IF continues THEN call.count + 1 ELSE 1
           baseIndex == IF continues THEN call.baseIndex ELSE current
       IN  call' =
             IF call.length = 0 THEN [call EXCEPT !.pressed = @ + 1]
             ELSE [call EXCEPT
                     !.pressed = @ + 1,
                     !.since = 0,
                     !.count = count,
                     !.baseIndex = baseIndex,
                     !.seekTimer = << [targetIndex |->
                                         targetIndexOf(call.direction, baseIndex,
                                                       count, call.length)] >>,
                     !.presses = IF isRapidPress THEN @ + 1 ELSE 1,
                     !.base = IF isRapidPress THEN @ ELSE current,
                     !.seeks = IF isRapidPress THEN @ ELSE 0]
    /\ UNCHANGED <<wordData, openaiApiKey, pc, attempt, bestResult, lastError,
                   outcome, response, requests, waited, hist>>

\* a tenth of a second passes
TimePasses ==
    /\ pc = "navigation"
    /\ call.since < DOUBLE_PRESS_THRESHOLD
    /\ call' = [call EXCEPT !.since = @ + 1]
    /\ UNCHANGED <<wordData, openaiApiKey, pc, attempt, bestResult, lastError,
                   outcome, response, requests, waited, hist>>

\* lines 2254-2263: the timer set at the last press fires, not before the
\* threshold has passed
SeekTimerFires ==
    /\ pc = "navigation"
    /\ call.seekTimer /= <<>>
    /\ call.since >= DOUBLE_PRESS_THRESHOLD
    /\ LET targetIndex == call.seekTimer[1].targetIndex
           shouldSeek == call.direction = "left" \/ targetIndex > call.baseIndex
       IN  call' =
             IF shouldSeek /\ targetIndex >= 0 /\ targetIndex < call.length
             THEN [call EXCEPT
                     !.seekTimer = <<>>,
                     !.position = Boundaries(call.length)[targetIndex + 1].startC,
                     !.seeks = @ + 1,
                     !.lastSeek = << [targetIndex |-> targetIndex,
                                      presses |-> call.presses, base |-> call.base] >>]
             ELSE [call EXCEPT !.seekTimer = <<>>]
    /\ UNCHANGED <<wordData, openaiApiKey, pc, attempt, bestResult, lastError,
                   outcome, response, requests, waited, hist>>

\* the audio plays on, or the reader jumps: the highlighted word changes
PlaybackMoves ==
    /\ pc = "navigation"
    /\ \E position \in (0 - 1) .. (3 * call.length - 1) :
         /\ position /= call.position
         /\ call' = [call EXCEPT !.position = position]
    /\ UNCHANGED <<wordData, openaiApiKey, pc, attempt, bestResult, lastError,
                   outcome, response, requests, waited, hist>>

NextNavigation ==
    navigateMeaningBlocks \/ TimePasses \/ SeekTimerFires \/ PlaybackMoves

SpecNavigation == InitNavigation /\ [][NextNavigation]_vars

\* ------------------------------------------------------------------------
\* Shadowing of the content script (src/unnamed/part_003)
\* ------------------------------------------------------------------------

\* largest number of repetitions set in the popup
MaxRepetitions == 3

\* lines 1636-1670, startShadowingPause(blockIndex, boundaries): the audio
\* is paused and the pause timer set; pauses counts the pauses of a block
startShadowingPause(s, blockIndex) ==
    IF s.isInPause THEN s
    ELSE [s EXCEPT !.isInPause = TRUE, !.currentBlockIndex = blockIndex,
                   !.playing = FALSE, !.pauseTimer = TRUE,
                   !.pauses[blockIndex + 1] = @ + 1]

\* lines 1835-1889, checkForBlockBoundary()
checkForBlockBoundary(s) ==
    LET boundaries == Boundaries(s.length)
        currentBlockIndex == findBlockIndex(boundaries, s.position)
        found == { i \in DOMAIN boundaries : boundaries[i].endC = s.lastBlockEndC }
        wasInBlock == IF found = {} THEN 0 - 1
                      ELSE (CHOOSE i \in found : \A j \in found : i <= j) - 1
    IN  IF ~s.enabled \/ ~s.isWaitingForBlockEnd THEN s
        ELSE IF s.length = 0 \/ s.position < 0 \/ currentBlockIndex < 0 THEN s
        ELSE IF /\ s.lastBlockEndC >= 0
                /\ wasInBlock >= 0 /\ currentBlockIndex > wasInBlock
                /\ wasInBlock /= s.currentBlockIndex
        THEN startShadowingPause([s EXCEPT !.isWaitingForBlockEnd = FALSE], wasInBlock)
        ELSE [s EXCEPT !.lastBlockEndC = boundaries[currentBlockIndex + 1].endC]

\* lines 1676-1727, endShadowingPause(boundaries): the block is replayed
\* from its start, or the audio resumes where it is
endShadowingPause(s) ==
    IF ~s.isInPause THEN s
    ELSE IF s.currentRepetition + 1 < s.repetitions
    THEN [s EXCEPT !.pauseTimer = FALSE,
                   !.currentRepetition = @ + 1,
                   !.isInPause = FALSE,
                   !.position = Boundaries(s.length)[s.currentBlockIndex + 1].startC,
                   !.resumeTimer = TRUE,
                   !.replays[s.currentBlockIndex + 1] = @ + 1]
    ELSE [s EXCEPT !.pauseTimer = FALSE,
                   !.currentRepetition = 0,
                   !.isInPause = FALSE,
                   !.playing = TRUE,
                   !.isWaitingForBlockEnd = TRUE]

\* lines 294-308 and 1928-1943: shadowing is enabled with 1 to
\* MaxRepetitions repetitions and the audio starts at some word of a page
\* with one to MaxBoundaries blocks; plays, pauses and replays count, for
\* every block, how often it has finished playing, was paused after and was
\* replayed
InitShadowing ==
    /\ wordData = <<>>
    /\ openaiApiKey = TRUE
    /\ pc = "shadowing"
    /\ attempt = 0
    /\ bestResult = <<>>
    /\ lastError = <<>>
    /\ outcome = Pending
    /\ response = <<>>
    /\ requests = <<>>
    /\ waited = <<>>
    /\ hist = <<>>
    /\ \E n \in 1 .. MaxBoundaries, repetitions \in 1 .. MaxRepetitions,
          first \in 0 .. MaxBoundaries - 1 :
         /\ first < n
         /\ call = [enabled |-> TRUE, repetitions |-> repetitions, length |-> n,
                    isInPause |-> FALSE, currentBlockIndex |-> 0 - 1,
                    currentRepetition |-> 0, pauseTimer |-> FALSE,
                    lastBlockEndC |-> 0 - 1, isWaitingForBlockEnd |-> TRUE,
                    playing |-> TRUE, resumeTimer |-> FALSE,
                    position |-> 3 * first - 1, first |-> first,
                    plays |-> [i \in 1 .. n |-> 0],
                    pauses |-> [i \in 1 .. n |-> 0],
                    replays |-> [i \in 1 .. n |-> 0]]

\* lines 1898-1910: the audio reaches the next word, its highlight changes
\* and the observer calls checkForBlockBoundary
WordHighlighted ==
    /\ pc = "shadowing"
    /\ call.playing
    /\ call.position < 3 * (call.length - 1) + 1
    /\ LET ended == { i \in 1 .. call.length :
                        Boundaries(call.length)[i].endC = call.position }
       IN  call' = checkForBlockBoundary(
                     [call EXCEPT !.position = @ + 1,
                                  !.plays = [i \in 1 .. call.length |->
                                               IF i \in ended THEN @[i] + 1 ELSE @[i]]])
    /\ UNCHANGED <<wordData, openaiApiKey, pc, attempt, bestResult, lastError,
                   outcome, response, requests, waited, hist>>

\* lines 1667-1669: the pause timer fires
PauseTimerFires ==
    /\ pc = "shadowing"
    /\ call.pauseTimer
    /\ call' = endShadowingPause(call)
    /\ UNCHANGED <<wordData, openaiApiKey, pc, attempt, bestResult, lastError,
                   outcome, response, requests, waited, hist>>

\* lines 1702-1706: 100 ms after the seek the audio resumes
ResumeTimerFires ==
    /\ pc = "shadowing"
    /\ call.resumeTimer
    /\ call' = [call EXCEPT !.resumeTimer = FALSE, !.playing = TRUE,
                            !.isWaitingForBlockEnd = TRUE]
    /\ UNCHANGED <<wordData, openaiApiKey, pc, attempt, bestResult, lastError,
                   outcome, response, requests, waited, hist>>

NextShadowing == WordHighlighted \/ PauseTimerFires \/ ResumeTimerFires

SpecShadowing == InitShadowing /\ [][NextShadowing]_vars
\* ------------------------------------------------------------------------
\* Properties
\* ------------------------------------------------------------------------

\* the blocks of a result pass validateLLMResponse against the request's words
PassesValidator(result) ==
    validateLLMResponse([isArray |-> TRUE, blocks |-> result.blocks], wordData).valid

\* the positions of the words of the request
RequestPositions == { wordData[k].c : k \in DOMAIN wordData }

\* C1 (hard gate): the stored best and every returned result passed
\* validateLLMResponse against the request's words in the attempt that made
\* them, and an attempt whose candidate failed the validator ends in a
\* retry, in an error or in the return of an earlier attempt's result,
\* never in the return of its own candidate.
C1_HardGate ==
    /\ bestResult /= <<>> =>
         /\ PassesValidator(bestResult[1])
         /\ hist[bestResult[1].attempt].passed
    /\ outcome.kind = "result" =>
         /\ PassesValidator(outcome.result[1])
         /\ hist[outcome.result[1].attempt].passed
    /\ \A i \in DOMAIN hist :
         ~hist[i].passed =>
           \/ attempt > i
           \/ pc = "sleep"
           \/ outcome.kind = "error"
           \/ outcome.kind = "result" /\ outcome.result[1].attempt < i

\* a best-effort result is returned after two candidates that failed the
\* validator
C1_Witness ==
    /\ outcome.kind = "result"
    /\ Len(hist) = 3
    /\ hist[2].class = "structural"
    /\ hist[3].class = "structural"
    /\ outcome.result[1].attempt = 1

\* C2 (non-overlap): whenever validateLLMResponse returns valid for a list
\* of blocks, in whatever order they are listed, the closed ranges
\* [start_c, end_c] of any two different blocks do not intersect.
C2_NonOverlap ==
    (pc = "validated" /\ call.valid) =>
      \A i, j \in DOMAIN call.blocks :
        i /= j => \/ call.blocks[i].end_c.n < call.blocks[j].start_c.n
                  \/ call.blocks[j].end_c.n < call.blocks[i].start_c.n

\* three blocks listed out of order are accepted
C2_Witness ==
    /\ pc = "validated"
    /\ call.valid
    /\ Len(call.blocks) = 3
    /\ call.blocks[1].start_c.n > call.blocks[3].start_c.n
    /\ call.blocks[3].start_c.n > call.blocks[2].start_c.n

\* C3 (membership): in every returned result the start and the end of every
\* block are positions of words of the request.
C3_Membership ==
    outcome.kind = "result" =>
      \A k \in DOMAIN outcome.result[1].blocks :
        /\ outcome.result[1].blocks[k].start_c.t = "number"
        /\ outcome.result[1].blocks[k].end_c.t = "number"
        /\ outcome.result[1].blocks[k].start_c.n \in RequestPositions
        /\ outcome.result[1].blocks[k].end_c.n \in RequestPositions

\* a result is returned for words that do not start at position 0: its
\* first block was given by the indexes 0 and 1 and has the positions 1, 2
C3_Witness ==
    /\ outcome.kind = "result"
    /\ wordData[1].c = 1
    /\ Len(outcome.result[1].blocks) = 2
    /\ outcome.result[1].blocks[1].start_c.n = wordData[1].c
    /\ outcome.result[1].blocks[1].end_c.n = wordData[2].c

\* C4 (ordering): in every returned result every block starts no later
\* than it ends.
C4_Ordering ==
    outcome.kind = "result" =>
      \A k \in DOMAIN outcome.result[1].blocks :
        outcome.result[1].blocks[k].start_c.n <= outcome.result[1].blocks[k].end_c.n

\* a result is returned after a candidate was rejected for a block that
\* starts after its end
C4_Witness ==
    /\ outcome.kind = "result"
    /\ Len(hist) = 2
    /\ lastError = <<"Structural: ", "Block ", "0", ": start_c > end_c">>
    /\ \E k \in DOMAIN outcome.result[1].blocks :
         outcome.result[1].blocks[k].start_c.n < outcome.result[1].blocks[k].end_c.n

\* the attempts whose candidate went through validateSemantics
Assessed == { i \in DOMAIN hist : hist[i].class \in {"semantic", "accepted"} }

\* an attempt was rejected by the generator with status 401
Unauthorized(i) == hist[i].class = "http" /\ hist[i].status = 401

\* C5 (degraded acceptance): if an attempt produced a structurally valid
\* candidate and no authorization error occurs, the invocation does not
\* raise an error.
C5_DegradedAcceptance ==
    ( /\ openaiApiKey
      /\ \E i \in DOMAIN hist : hist[i].passed
      /\ \A i \in DOMAIN hist : ~Unauthorized(i) )
    => outcome.kind /= "error"

\* C6 (early acceptance): an attempt whose candidate is structurally valid
\* and needs no retry is the last one; the invocation returns that
\* attempt's result, with no generator call and no delay after it.
C6_EarlyAcceptance ==
    \A i \in DOMAIN hist :
      hist[i].class = "accepted" =>
        /\ hist[i].passed /\ ~hist[i].shouldRetry
        /\ i = Len(hist)
        /\ pc \in {"returned", "responded"}
        /\ outcome.kind = "result"
        /\ outcome.result[1].attempt = i
        /\ Len(requests) = i
        /\ Len(waited) = i - 1

\* attempt 2 is accepted while the stored best is still that of attempt 1
C6_Witness ==
    /\ Len(hist) = 2
    /\ hist[2].class = "accepted"
    /\ bestResult /= <<>>
    /\ bestResult[1].attempt = 1
    /\ outcome.kind = "result"
    /\ outcome.result[1].attempt = 2

\* C7 (fatal on exhaustion): an invocation that settles without any
\* structurally valid candidate and without a missing key or a 401 has made
\* exactly getMaxRetries attempts and raises "Failed after <max> attempts: "
\* followed by the message of the last attempt.
C7_FatalOnExhaustion ==
    ( /\ outcome.kind /= "pending"
      /\ openaiApiKey
      /\ \A i \in DOMAIN hist : ~hist[i].passed /\ ~Unauthorized(i) )
    => /\ outcome.kind = "error"
       /\ Len(hist) = getMaxRetries
       /\ outcome.error = <<"Failed after ">> \o NumText(getMaxRetries)
                            \o <<" attempts: ">> \o lastError

C9_BestResultSelection ==
    /\ bestResult /= <<>> =>
         /\ bestResult[1].attempt \in Assessed
         /\ Len(bestResult[1].semanticViolations) = hist[bestResult[1].attempt].count
         /\ \A i \in Assessed :
              \/ hist[i].count > hist[bestResult[1].attempt].count
              \/ /\ hist[i].count = hist[bestResult[1].attempt].count
                 /\ i >= bestResult[1].attempt
    /\ (Assessed /= {}) => bestResult /= <<>>
    /\ ( /\ outcome.kind = "result"
         /\ Len(hist) = getMaxRetries
         /\ hist[Len(hist)].class /= "accepted" )
       => outcome.result = bestResult

\* after three flagged attempts, the second and the third with fewer
\* violations than the first, the result of the second is returned
C9_Witness ==
    /\ outcome.kind = "result"
    /\ Len(hist) = 3
    /\ \A i \in 1 .. 3 : hist[i].class = "semantic"
    /\ hist[1].count > hist[2].count
    /\ hist[2].count = hist[3].count
    /\ outcome.result[1].attempt = 2

\* C10 (local recovery): a parse failure, a structural violation or a
\* retry-worthy semantic violation at an attempt before the last does not
\* end the invocation.
C10_LocalRecovery ==
    \A i \in DOMAIN hist :
      ( /\ hist[i].class \in {"parse", "structural", "semantic"}
        /\ i < getMaxRetries
        /\ i = Len(hist) )
      => outcome.kind = "pending"

\* C11 (transient transport failure): a generator call that is rejected
\* with a status other than 401, or that fails with a transport exception,
\* at an attempt before the last does not end the invocation.
C11_TransientTransportFailure ==
    \A i \in DOMAIN hist :
      ( /\ \/ hist[i].class = "transport"
           \/ hist[i].class = "http" /\ hist[i].status /= 401
        /\ i < getMaxRetries
        /\ i = Len(hist) )
      => outcome.kind = "pending"

\* C12 (configuration error): without a stored key the invocation raises
\* the 'API Key not found' error; no generator call is made, no delay is
\* waited and no attempt is consumed.
C12_ConfigurationError ==
    (~openaiApiKey /\ pc /= "start") =>
      /\ outcome.kind = "error"
      /\ includes(outcome.error, APIKeyNotFound)
      /\ requests = <<>>
      /\ waited = <<>>
      /\ hist = <<>>
      /\ attempt = 0

\* the request without a key has been answered
C12_Witness ==
    /\ ~openaiApiKey
    /\ pc = "responded"
    /\ Len(response) = 1
    /\ ~response[1].success

\* C13 (retry delay): the wait after a failed attempt n is the delay of the
\* table entry for attempt n, and a delay of 0 is no wait.
C13_RetryDelay ==
    \A n \in DOMAIN waited : waited[n] = getRetryConfig(n).delay

\* C14 (bounded termination): when every step that can be taken is taken in
\* the end, the invocation returns or raises, and at no time has it made
\* more generator calls than the table has entries, nor more waits than
\* that number less one.
C14_BoundedTermination ==
    /\ <>(outcome.kind /= "pending")
    /\ [](Len(requests) <= Len(RETRY_CONFIG) /\ Len(waited) <= Len(RETRY_CONFIG) - 1)

\* an invocation has settled after three generator calls and two waits
C14_Witness ==
    /\ outcome.kind /= "pending"
    /\ Len(requests) = Len(RETRY_CONFIG)
    /\ Len(waited) = Len(RETRY_CONFIG) - 1

\* a response is a success that carries a result passing the validator and
\* no error, or a failure that carries an error message and no result
WellFormedResponse(r) ==
    \/ /\ r.success
       /\ r.error = <<>>
       /\ Len(r.data) = 1
       /\ PassesValidator(r.data[1])
    \/ /\ ~r.success
       /\ r.data = <<>>
       /\ r.error /= <<>>

\* C15 (binary outcome): the request is answered in the end, never more
\* than once, and the response is either a success with a structurally
\* valid result or a failure with an error message.
C15_BinaryOutcome ==
    /\ <>(Len(response) = 1)
    /\ [](Len(response) <= 1)
    /\ [](\A k \in DOMAIN response : WellFormedResponse(response[k]))

\* a request that exhausted its attempts is answered with the stored best
C15_Witness ==
    /\ Len(response) = 1
    /\ response[1].success
    /\ Len(hist) = getMaxRetries
    /\ hist[Len(hist)].class = "parse"

\* the violations of the assessed list with a severity
WithSeverity(s) == { k \in DOMAIN call.violations : call.violations[k].severity = s }

\* C16 (semantic aggregation): validateSemantics returns valid exactly when
\* no violation is an error, and shouldRetry exactly when some violation is
\* an error or some violation is a warning and there are two violations or
\* more.
C16_SemanticAggregation ==
    pc = "assessed" =>
      /\ call.valid <=> WithSeverity("error") = {}
      /\ call.shouldRetry <=>
           \/ WithSeverity("error") /= {}
           \/ WithSeverity("warning") /= {} /\ Len(call.violations) >= 2

\* one warning and no error: valid, and no retry is asked for
C16_Witness ==
    /\ pc = "assessed"
    /\ Len(call.violations) = 1
    /\ call.violations[1].severity = "warning"
    /\ call.valid
    /\ ~call.shouldRetry

\* block b has numeric start and end that are positions of words, in order,
\* and a non-empty string translation
SoundBlock(b) ==
    /\ b.start_c.t = "number"
    /\ b.end_c.t = "number"
    /\ b.start_c.n \in RequestPositions
    /\ b.end_c.n \in RequestPositions
    /\ b.start_c.n <= b.end_c.n
    /\ b.translation.t = "string"
    /\ b.translation.s /= <<>>

\* the blocks of the list whose closed range holds position c
Covering(blocks, c) ==
    { i \in DOMAIN blocks : blocks[i].start_c.n <= c /\ c <= blocks[i].end_c.n }

\* the ranges of the blocks partition the words: every word is in exactly
\* one block
ExactPartition(blocks) ==
    /\ \A i \in DOMAIN blocks : SoundBlock(blocks[i])
    /\ \A c \in RequestPositions : Cardinality(Covering(blocks, c)) = 1

\* C17 (validator accepts exact partition): validateLLMResponse returns
\* valid for every list of sound blocks, in any order, whose ranges
\* partition the words.
C17_AcceptsExactPartition ==
    (pc = "validated" /\ call.isArray /\ ExactPartition(call.blocks)) => call.valid

\* three blocks listed from the last to the first partition words whose
\* positions have a gap, and are accepted
C17_Witness ==
    /\ pc = "validated"
    /\ wordData = GappedWords
    /\ Len(call.blocks) = 3
    /\ ExactPartition(call.blocks)
    /\ call.blocks[1].start_c.n > call.blocks[2].start_c.n
    /\ call.blocks[2].start_c.n > call.blocks[3].start_c.n
    /\ call.valid

\* two different blocks of the list share a position
SharePosition(blocks) ==
    \E i, j \in DOMAIN blocks :
      /\ i /= j
      /\ blocks[i].start_c.n <= blocks[j].end_c.n
      /\ blocks[j].start_c.n <= blocks[i].end_c.n

\* the overlap error that names the blocks k - 1 and k (counted from 0) of
\* the list sorted by start
OverlapError(k) == <<"Blocks ", ToString(k - 1), " and ", ToString(k), " overlap">>

\* C18 (validator rejects overlap): when every block of a list is sound and
\* two blocks share a position, be it only one block's start that equals
\* another's end, validateLLMResponse returns invalid with the overlap
\* error of two neighbours of the list sorted by start, the second of which
\* starts no later than the first ends.
C18_RejectsOverlap ==
    ( /\ pc = "validated"
      /\ call.isArray
      /\ \A i \in DOMAIN call.blocks : SoundBlock(call.blocks[i])
      /\ SharePosition(call.blocks) )
    => /\ ~call.valid
       /\ \E k \in 1 .. Len(call.blocks) - 1 :
            /\ call.error = OverlapError(k)
            /\ SortByStart(call.blocks)[k + 1].start_c.n
                 <= SortByStart(call.blocks)[k].end_c.n

\* words at 0, 1, 2 with the blocks [0,1] and [1,2]: rejected, naming the
\* blocks 0 and 1
C18_Witness ==
    /\ pc = "validated"
    /\ wordData = ValidatorWords
    /\ call.blocks = << Block(Num(0), Num(1)), Block(Num(1), Num(2)) >>
    /\ ~call.valid
    /\ call.error = OverlapError(1)

\* C19 (validator rejects empty): validateLLMResponse returns invalid when
\* blocks is missing or no array and when it is the empty array; for the
\* empty array the error says so.
C19_RejectsEmpty ==
    (pc = "validated" /\ (~call.isArray \/ Len(call.blocks) = 0)) =>
      /\ ~call.valid
      /\ call.isArray => call.error = <<"Empty blocks array">>
      /\ ~call.isArray => call.error = <<"Missing or invalid blocks array">>

\* the empty array has been rejected for the words with a gap
C19_Witness ==
    /\ pc = "validated"
    /\ wordData = GappedWords
    /\ call.isArray
    /\ call.blocks = <<>>
    /\ ~call.valid
    /\ call.error = <<"Empty blocks array">>

\* the number of the first check that block b fails, in the order: start or
\* end missing (1), translation missing or empty (2), start no word
\* position (3), end no word position (4), start after end (5); 0 when it
\* passes all
FirstFailingCheck(b) ==
    IF b.start_c.t /= "number" \/ b.end_c.t /= "number" THEN 1
    ELSE IF ~(b.translation.t = "string" /\ b.translation.s /= <<>>) THEN 2
    ELSE IF b.start_c.n \notin RequestPositions THEN 3
    ELSE IF b.end_c.n \notin RequestPositions THEN 4
    ELSE IF b.start_c.n > b.end_c.n THEN 5
    ELSE 0

\* the error that names block i (counted from 0) and the check it fails
CheckError(i, b, check) ==
    CASE check = 1 -> <<"Block ", ToString(i), ": missing start_c or end_c">>
      [] check = 2 -> <<"Block ", ToString(i), ": missing or invalid translation">>
      [] check = 3 -> <<"Block ", ToString(i), ": start_c ", ToString(b.start_c.n),
                        " not in word map">>
      [] check = 4 -> <<"Block ", ToString(i), ": end_c ", ToString(b.end_c.n),
                        " not in word map">>
      [] check = 5 -> <<"Block ", ToString(i), ": start_c > end_c">>

\* the blocks of the validated list that fail a check
FailingBlocks == { i \in DOMAIN call.blocks : FirstFailingCheck(call.blocks[i]) /= 0 }

\* C20 (validator short-circuit): for a non-empty list validateLLMResponse
\* reports one error: that of the first failing check of the failing block
\* with the lowest index; an overlap error is reported only if no block
\* fails a check.
C20_ShortCircuit ==
    (pc = "validated" /\ call.isArray /\ Len(call.blocks) > 0) =>
      IF FailingBlocks /= {}
      THEN \E i \in FailingBlocks :
             /\ \A j \in FailingBlocks : i <= j
             /\ ~call.valid
             /\ call.error = CheckError(i - 1, call.blocks[i],
                                        FirstFailingCheck(call.blocks[i]))
      ELSE call.valid \/ \E k \in 1 .. Len(call.blocks) - 1 : call.error = OverlapError(k)

\* a sound block comes first, then a block that fails the translation check
\* and both position checks, then a block that fails the first two checks:
\* the one error reported is the missing translation of the second block
C20_Witness ==
    /\ pc = "validated"
    /\ wordData = GappedWords
    /\ Len(call.blocks) = 3
    /\ FirstFailingCheck(call.blocks[1]) = 0
    /\ call.blocks[2] = [Block(Num(1), Num(1)) EXCEPT !.translation = Str(<<>>)]
    /\ FirstFailingCheck(call.blocks[3]) = 1
    /\ call.error = <<"Block ", "1", ": missing or invalid translation">>

\* the positions of words that no block of the list covers
Uncovered(blocks, words) ==
    { words[k].c : k \in DOMAIN words } \
      { c \in Int : \E i \in DOMAIN blocks : blocks[i].start_c.n <= c /\ c <= blocks[i].end_c.n }

\* the documents whose converted blocks pass validateLLMResponse, leave a
\* word uncovered and get shouldRetry = false from validateSemantics
GappedAcceptable ==
    [words \in WordLists |->
       { doc \in Documents(words) :
           /\ doc.kind = "blocks"
           /\ validateLLMResponse([isArray |-> TRUE,
                                   blocks |-> ConvertBlocks(doc.blocks, words)], words).valid
           /\ Uncovered(ConvertBlocks(doc.blocks, words), words) /= {}
           /\ ~SemanticsThrows(ConvertBlocks(doc.blocks, words))
           /\ ~validateSemantics(ConvertBlocks(doc.blocks, words)).shouldRetry }]

\* C21 (coverage gaps are non-blocking): whenever a generator call is
\* pending, a document whose blocks are structurally valid, leave some word
\* uncovered and get shouldRetry = false is accepted on that attempt: the
\* attempt returns its blocks; and every attempt on record that passed the
\* structural validation with shouldRetry = false ended the invocation with
\* the return of its own result.
C21_CoverageNonBlocking ==
    /\ pc = "fetch" =>
         \A doc \in GappedAcceptable[wordData], usage \in Usages :
           \E r \in { Candidate(doc, usage, wordData, attempt, bestResult) } :
             /\ ~r.threw
             /\ r.passed
             /\ r.parsed[1].blocks = ConvertBlocks(doc.blocks, wordData)
             /\ r.parsed[1].attempt = attempt
    /\ \A i \in DOMAIN hist :
         (hist[i].passed /\ hist[i].class /= "semantics-threw" /\ ~hist[i].shouldRetry) =>
           /\ hist[i].class = "accepted"
           /\ i = Len(hist)
           /\ outcome.kind = "result"
           /\ outcome.result[1].attempt = i

\* the second attempt returned its own result, which leaves a word
\* uncovered and for which validateBlockCoverage logged a gap
C21_Witness ==
    /\ pc = "returned"
    /\ Len(hist) = 2
    /\ hist[2].class = "accepted"
    /\ outcome.kind = "result"
    /\ outcome.result[1].attempt = 2
    /\ Uncovered(outcome.result[1].blocks, wordData) /= {}
    /\ validateBlockCoverage(outcome.result[1].blocks, wordData) /= <<>>

\* C22 (remap round trip): for words at distinct positions, word k of the
\* list gets index k - 1 (from 0) and keeps its text; the conversion of an
\* entry with the index pair (s, e), both below the number of words, has
\* start_c = the position of word s and end_c = the position of word e; and
\* the conversion of one entry per index gives back the positions of the
\* words, in order.
C22_RemapRoundTrip ==
    pc = "remapped" =>
      /\ Len(call.simplified) = Len(wordData)
      /\ \A k \in DOMAIN wordData :
           call.simplified[k] = [i |-> k - 1, w |-> wordData[k].text]
      /\ call.block.s.t = "number" =>
           /\ call.converted.start_c = Num(wordData[call.block.s.n + 1].c)
           /\ call.converted.end_c = Num(wordData[call.block.e.n + 1].c)
      /\ Len(call.identity) = Len(wordData)
      /\ \A k \in DOMAIN wordData :
           /\ call.identity[k].start_c = Num(wordData[k].c)
           /\ call.identity[k].end_c = Num(wordData[k].c)

\* three words in the order 3, 0, 2 of their positions, and the entry with
\* the index pair (0, 2): it becomes the block from position 3 to position 2
C22_Witness ==
    /\ pc = "remapped"
    /\ [k \in DOMAIN wordData |-> wordData[k].c] = <<3, 0, 2>>
    /\ call.block.s = Num(0)
    /\ call.block.e = Num(2)
    /\ call.converted.start_c = Num(3)
    /\ call.converted.end_c = Num(2)
    /\ [k \in DOMAIN call.identity |-> call.identity[k].start_c.n] = <<3, 0, 2>>

\* C23 (legacy format resolution): an entry in the older format, whose
\* start_c and end_c are positions of words of the list, is converted to a
\* block with those same positions as start_c and end_c.
C23_LegacyResolution ==
    (pc = "remapped" /\ call.block.s = Undefined /\ call.block.e = Undefined) =>
      /\ call.converted.start_c = call.block.start_c
      /\ call.converted.end_c = call.block.end_c

\* largest attempt number getRetryConfig is asked for
MaxAttemptNumber == 6

\* C24 (escalation table): the n-th call of the generator in an invocation
\* carries the temperature of table entry min(n, table length), and
\* getRetryConfig(n) is entry n for n up to the table's length and the last
\* entry for every larger n.
C24_EscalationTable ==
    /\ \A n \in DOMAIN requests :
         requests[n] = RETRY_CONFIG[IF n <= Len(RETRY_CONFIG) THEN n
                                    ELSE Len(RETRY_CONFIG)].temperature
    /\ pc = "fetch" =>
         /\ Len(requests) = attempt
         /\ \A n \in 1 .. MaxAttemptNumber :
              getRetryConfig(n) = IF n <= Len(RETRY_CONFIG) THEN RETRY_CONFIG[n]
                                  ELSE RETRY_CONFIG[Len(RETRY_CONFIG)]

\* the third attempt is under way: the three calls went out with 0.2, 0.4
\* and 0.6
C24_Witness ==
    /\ pc = "fetch"
    /\ attempt = 3
    /\ requests = <<2, 4, 6>>
    /\ getRetryConfig(MaxAttemptNumber).temperature = 6

\* an invocation that runs alone on its words and gets the generator replies
\* events[k], events[k + 1], ...: its variables and its stored best at the
\* end of them
RECURSIVE Alone(_, _, _, _)
Alone(st, best, events, k) ==
    IF k > Len(events) THEN [st |-> st, best |-> best]
    ELSE LET woken == IF st.pc = "sleep"
                      THEN [st EXCEPT !.pc = "fetch", !.attempt = st.attempt + 1]
                      ELSE st
             after == AttemptStep(woken, best, events[k])
         IN  Alone(after.st, after.best, events, k + 1)

\* the run alone of the invocation with the given words
RunAlone(words, events) ==
    Alone([Invocation(words) EXCEPT !.pc = "fetch", !.attempt = 1], <<>>, events, 1)

\* C25 (instance isolation): with two invocations whose awaits interleave
\* in any order, the outcome, the last error and the stored best of each
\* are at every moment those of a run alone on its own words with its own
\* generator replies.
C25_InstanceIsolation ==
    pc = "pair" =>
      \A i \in 1 .. 2 :
        \E alone \in { RunAlone(PairWords[i], call.inst[i].events) } :
          /\ call.inst[i].words = PairWords[i]
          /\ call.inst[i].outcome = alone.st.outcome
          /\ call.inst[i].lastError = alone.st.lastError
          /\ call.best[i] = alone.best

\* the calls of the two invocations alternated; the first stored a best
\* with two violations and ran out of attempts, the second stored a best
\* with one violation meanwhile: each returns its own
C25_Witness ==
    /\ pc = "pair"
    /\ \A i \in 1 .. 2 :
         /\ call.inst[i].pc = "returned"
         /\ Len(call.inst[i].events) = 3
         /\ call.inst[i].outcome.kind = "result"
         /\ call.inst[i].outcome.result[1] = call.best[i][1]
    /\ Len(call.best[1][1].semanticViolations) = 2
    /\ Len(call.best[2][1].semanticViolations) = 1
    /\ call.best[1][1].attempt = 1
    /\ call.best[2][1].attempt = 2

\* the text of block i of the assessed list, and its words
AssessedText(i) == call.blocks[i].original.s

AssessedWords(i) == WordsOf(AssessedText(i))

\* the assessed list has a violation of the type and severity for block i
\* (counted from 1; blockIndex counts from 0)
Reported(type, severity, i) ==
    \E k \in DOMAIN call.violations :
      /\ call.violations[k].type = type
      /\ call.violations[k].severity = severity
      /\ call.violations[k].blockIndex = i - 1

\* block i has a successor, one or two words, a linking verb as its last
\* word, and a successor that does not start with a verb-like token
IsolatedCopula(i) ==
    /\ i < Len(call.blocks)
    /\ Len(AssessedWords(i)) \in 1 .. 2
    /\ InTable(LINKING_VERBS, StripPunct(AssessedWords(i)[Len(AssessedWords(i))]))
    /\ ~startsWithVerb(call.blocks[i + 1].original)

\* C26 (isolated copula flagged): for every block with a successor, at most
\* two words, a linking verb as its last word and a successor that does not
\* start with a verb-like token, validateSemantics reports an error
\* linking_verb_isolated with the block's index, and shouldRetry is true.
C26_IsolatedCopulaFlagged ==
    pc = "assessed" =>
      \A i \in DOMAIN call.blocks :
        IsolatedCopula(i) =>
          /\ Reported("linking_verb_isolated", "error", i)
          /\ call.shouldRetry
          /\ ~call.valid

\* the blocks "reste" and "le chat": one violation, for the first block
C26_Witness ==
    /\ pc = "assessed"
    /\ Len(call.blocks) = 2
    /\ AssessedText(1) = <<"r","e","s","t","e">>
    /\ AssessedText(2) = <<"l","e"," ","c","h","a","t">>
    /\ Len(call.violations) = 1
    /\ Reported("linking_verb_isolated", "error", 1)
    /\ call.shouldRetry

\* C27 (merged copula passes): no linking_verb_isolated violation is
\* reported for a block of three or more words, nor for the last block of a
\* list; the single block "reste un defi majeur" has none.
C27_MergedCopulaPasses ==
    pc = "assessed" =>
      /\ \A k \in DOMAIN call.violations :
           call.violations[k].type = "linking_verb_isolated" =>
             /\ call.violations[k].blockIndex + 1 < Len(call.blocks)
             /\ Len(AssessedWords(call.violations[k].blockIndex + 1)) <= 2
      /\ (Len(call.blocks) = 1
          /\ AssessedText(1) = <<"r","e","s","t","e"," ","u","n"," ","d","eacute","f","i",
                                 " ","m","a","j","e","u","r">>) =>
           call.violations = <<>>

\* three words that end with a linking verb, then a text that starts with no
\* verb, then a linking verb as the last block: nothing is reported
C27_Witness ==
    /\ pc = "assessed"
    /\ Len(call.blocks) = 3
    /\ AssessedText(1) = <<"l","e"," ","c","h","a","t"," ","e","s","t">>
    /\ AssessedText(2) = <<"l","e"," ","c","h","a","t">>
    /\ AssessedText(3) = <<"r","e","s","t","e">>
    /\ call.violations = <<>>

\* the trimmed text of block i is made of punctuation marks and dashes only
OnlyPunctuation(i) ==
    /\ trim(AssessedText(i)) /= <<>>
    /\ \A k \in DOMAIN trim(AssessedText(i)) : trim(AssessedText(i))[k] \in ORPHAN_PUNCT

\* C28 (orphan punctuation flagged): for every block, first, middle or
\* last, whose trimmed text is made of punctuation marks and dashes only,
\* validateSemantics reports an error orphan_punctuation with the block's
\* index, so that valid is false and shouldRetry is true.
C28_OrphanPunctuationFlagged ==
    pc = "assessed" =>
      \A i \in DOMAIN call.blocks :
        OnlyPunctuation(i) =>
          /\ Reported("orphan_punctuation", "error", i)
          /\ ~call.valid
          /\ call.shouldRetry

\* a comma first, a dash between spaces in the middle and a comma last:
\* three violations, one for each
C28_Witness ==
    /\ pc = "assessed"
    /\ Len(call.blocks) = 3
    /\ AssessedText(1) = <<",">>
    /\ AssessedText(2) = <<" ","mdash"," ">>
    /\ AssessedText(3) = <<",">>
    /\ \A i \in 1 .. 3 : Reported("orphan_punctuation", "error", i)
    /\ Len(call.violations) = 3
    /\ ~call.valid

\* C29 (the word list is never mutated): at every moment of an invocation,
\* whatever its attempts and its outcome, and after a call of
\* validateLLMResponse, validateBlockCoverage or validateSemantics, the word
\* list is the one the caller handed over: same length, same order, same
\* position and text of every word.
C29_WordListNeverMutated ==
    /\ Len(wordData) = Len(call.before)
    /\ \A k \in DOMAIN wordData :
         /\ wordData[k].c = call.before[k].c
         /\ wordData[k].text = call.before[k].text

\* validateBlockCoverage was called with words that are not in the order of
\* their positions and left them so
C29_Witness ==
    /\ pc = "called"
    /\ call.fn = "validateBlockCoverage"
    /\ Len(call.blocks) = 1
    /\ wordData /= SortByC(wordData)
    /\ wordData = call.before

\* an invocation went through three attempts, two of them with a candidate
\* that the three validators saw, and answered: the words are as before
C29_AfterInvocation ==
    /\ pc = "responded"
    /\ Len(hist) = 3
    /\ hist[1].passed
    /\ hist[2].passed
    /\ wordData = call.before

\* the replies that attempt n received
ReportedIn(n) == { k \in DOMAIN call : call[k].attempt = n }

\* the result carries what the reply of its attempt reported
CarriesOwnUsage(result) ==
    /\ ReportedIn(result.attempt) /= {}
    /\ \A k \in ReportedIn(result.attempt) :
         IF call[k].usage = <<>>
         THEN /\ result.tokenUsage.promptTokens = 0
              /\ result.tokenUsage.completionTokens = 0
         ELSE /\ result.tokenUsage.promptTokens = call[k].usage[1].prompt_tokens
              /\ result.tokenUsage.completionTokens = call[k].usage[1].completion_tokens

\* C30 (token usage pass-through): every returned Result, and the one the
\* listener sends, carries as tokenUsage the prompt and completion tokens
\* that the generator reported in the attempt that made the Result, zeros if
\* it reported none; a best-effort Result returned after the last attempt
\* failed carries the usage of its own attempt, not that of a later one.
C30_TokenUsagePassThrough ==
    /\ outcome.kind = "result" => CarriesOwnUsage(outcome.result[1])
    /\ \A k \in DOMAIN response :
         response[k].success => CarriesOwnUsage(response[k].data[1])
    /\ bestResult /= <<>> => CarriesOwnUsage(bestResult[1])

\* the first attempt made a result and reported 7 and 3 tokens, the two
\* later attempts failed, the last with a reply that reported no usage, and
\* the result of the first was returned with 7 and 3
C30_Witness ==
    /\ pc = "returned"
    /\ Len(hist) = 3
    /\ hist[3].class /= "accepted"
    /\ outcome.result[1].attempt = 1
    /\ outcome.result[1].tokenUsage = [promptTokens |-> 7, completionTokens |-> 3]
    /\ Len(call) = 3
    /\ call[3].usage = <<>>

\* an accepted result whose reply reported no usage carries zeros
C30_WitnessZeros ==
    /\ pc = "responded"
    /\ Len(hist) = 2
    /\ hist[2].class = "accepted"
    /\ call[Len(call)].usage = <<>>
    /\ response[1].data[1].tokenUsage = [promptTokens |-> 0, completionTokens |-> 0]

\* the semantic validation of the attempt that made the result asked for a
\* retry: the result carries an error-severity violation or two or more
\* violations
Flagged(result) ==
    \/ hist[result.attempt].shouldRetry
    \/ /\ result.hasViolations
       /\ \/ Len(result.semanticViolations) >= 2
          \/ SelectSeq(result.semanticViolations, IsError) /= <<>>

\* C31 (a flagged result is returned only on exhaustion): when the
\* invocation returns a Result whose semantic validation had shouldRetry =
\* true, all getMaxRetries attempts were made before: the loop counter is at
\* its maximum, every attempt has ended and every generator call was made.
C31_FlaggedOnlyOnExhaustion ==
    ( outcome.kind = "result" /\ Flagged(outcome.result[1]) ) =>
        /\ attempt = getMaxRetries
        /\ Len(hist) = getMaxRetries
        /\ Len(requests) = getMaxRetries
        /\ Len(waited) = getMaxRetries - 1
        /\ hist[Len(hist)].class /= "accepted"

\* the flagged result of the first attempt is returned after two more
\* attempts, the last of which had no document
C31_Witness ==
    /\ pc = "returned"
    /\ outcome.kind = "result"
    /\ outcome.result[1].attempt = 1
    /\ Flagged(outcome.result[1])
    /\ hist[1].shouldRetry
    /\ Len(hist) = 3
    /\ hist[3].class = "transport"

\* C32 (coverage audit completeness): for a list of blocks that
\* validateLLMResponse accepts, validateBlockCoverage logs at least one gap
\* warning when some word lies in no block's range from start_c to end_c,
\* and logs none when every word is covered.
C32_CoverageAuditComplete ==
    ( call.done /\ call.valid ) =>
        ( Uncovered(call.blocks, wordData) /= {} <=> call.coverage /= <<>> )

\* the half of C32 that the code keeps: no warning when every word is
\* covered, and a warning when a word before the start of some block is
\* covered by no block
C32_NoWarningWhenCovered ==
    ( call.done /\ call.valid ) =>
        /\ Uncovered(call.blocks, wordData) = {} => call.coverage = <<>>
        /\ ( \E c \in Uncovered(call.blocks, wordData), i \in DOMAIN call.blocks :
               c < call.blocks[i].start_c.n ) => call.coverage /= <<>>

\* an accepted list that stops before the last word: no warning is logged
C32_TrailingGap ==
    /\ call.done /\ call.valid
    /\ Len(call.blocks) = 2
    /\ Uncovered(call.blocks, wordData) = { wordData[Len(wordData)].c }
    /\ call.coverage = <<>>

\* the text of block i is entry m of the discourse-marker table followed by
\* further words
MarkerWithContent(i, m) ==
    \E rest \in MarkerContinuations : AssessedText(i) = DISCOURSE_MARKERS[m] \o rest

\* C33 (discourse-marker table coverage): for every entry of
\* DISCOURSE_MARKERS, of one word or of several, a block whose text is the
\* entry followed by at least one further word of content gets a
\* warning-severity discourse_marker_absorbed violation with its index.
C33_EveryMarkerFlagged ==
    pc = "assessed" =>
      \A i \in DOMAIN call.blocks, m \in DOMAIN DISCOURSE_MARKERS :
        MarkerWithContent(i, m) =>
          Reported("discourse_marker_absorbed", "warning", i)

\* the entries that are one word without an apostrophe
OneWordMarker(m) ==
    \A k \in DOMAIN DISCOURSE_MARKERS[m] : DISCOURSE_MARKERS[m][k] \notin {" ", "'"}

\* what the code keeps of C33: the entries of one word without an
\* apostrophe are flagged, the others never are
C33_OneWordMarkersOnly ==
    pc = "assessed" =>
      \A i \in DOMAIN call.blocks, m \in DOMAIN DISCOURSE_MARKERS :
        MarkerWithContent(i, m) =>
          ( Reported("discourse_marker_absorbed", "warning", i) <=> OneWordMarker(m) )

\* the single block "en effet il part" is assessed without any violation
C33_MultiWordMarkerMissed ==
    /\ pc = "assessed"
    /\ Len(call.blocks) = 1
    /\ AssessedText(1) = <<"e","n"," ","e","f","f","e","t"," ","i","l"," ","p","a","r","t">>
    /\ call.violations = <<>>

\* neither is "d'ailleurs il part"
C33_ApostropheMarkerMissed ==
    /\ pc = "assessed"
    /\ Len(call.blocks) = 1
    /\ AssessedText(1) = <<"d","'","a","i","l","l","e","u","r","s"," ","i","l"," ","p","a","r","t">>
    /\ call.violations = <<>>

\* C34 (regime independence): two invocations on the same words, one under
\* the escalating table and one under the constant-temperature table, that
\* receive the same generator responses are at every step in the same
\* orchestrator state: same position, same attempt number, same last error,
\* same stored best, same delays and same outcome; they differ in the
\* temperatures of their requests only, and made equally many requests.
C34_RegimeIndependence ==
    /\ [call.inst[1] EXCEPT !.requests = <<>>] = [call.inst[2] EXCEPT !.requests = <<>>]
    /\ call.best[1] = call.best[2]
    /\ Len(call.inst[1].requests) = Len(call.inst[2].requests)
    /\ \A n \in DOMAIN call.inst[1].requests :
         /\ call.inst[1].requests[n] = RETRY_CONFIG[n].temperature
         /\ call.inst[2].requests[n] = 10

\* both invocations return the flagged result of their first attempt after
\* three attempts, having asked with 0.2, 0.4, 0.6 and with 1, 1, 1
C34_Witness ==
    /\ call.inst[1].pc = "returned"
    /\ call.inst[2].pc = "returned"
    /\ call.inst[1].requests = <<2, 4, 6>>
    /\ call.inst[2].requests = <<10, 10, 10>>
    /\ call.inst[1].waited = <<1000, 1000>>
    /\ call.inst[1].outcome.result[1].attempt = 1
    /\ call.inst[2].outcome = call.inst[1].outcome
    /\ Len(call.events) = 3

\* C35 (cache version and key gating): whatever SET_CACHED_TRANSLATIONS,
\* GET_CACHED_TRANSLATIONS and CLEAR_CACHE operations came before,
\* getCachedTranslations(url) returns the entry that setCachedTranslations
\* stored last for that same url, with version CACHE_VERSION, when no clear
\* has removed it since; in every other case (nothing stored for the url, an
\* entry of another url, an entry of another version, a cleared entry) it
\* returns null.
C35_CacheGating ==
    call.got /= <<>> =>
      /\ call.got[1].data = call.got[1].live
      /\ call.got[1].data /= <<>> =>
           /\ call.got[1].data[1].version = CACHE_VERSION
           /\ call.got[1].data[1].timestamp \in 1 .. call.ops
           /\ call.got[1].data[1].paragraphs \in ParagraphLists

\* a page was stored, the cache was cleared, the other page was stored and
\* the first page was asked for: null
C35_Witness ==
    /\ call.got /= <<>>
    /\ call.got[1].url = <<"a">>
    /\ call.got[1].data = <<>>
    /\ call.cleared = <<1>>
    /\ call.live[<<"a","b">>] /= <<>>
    /\ call.storage[getCacheKey(<<"a">>)] = <<>>
    /\ call.ops = 4

\* the entry of version 0 that an older release left is not returned
C35_WitnessVersion ==
    /\ call.got /= <<>>
    /\ call.got[1].url = <<"a">>
    /\ call.got[1].data = <<>>
    /\ call.storage[getCacheKey(<<"a">>)] /= <<>>
    /\ call.storage[getCacheKey(<<"a">>)][1].version = 0

\* a stored page is returned with what was stored
C35_WitnessHit ==
    /\ call.got /= <<>>
    /\ call.got[1].url = <<"a","b">>
    /\ call.got[1].data /= <<>>
    /\ call.got[1].data[1].paragraphs = <<"p","q">>

\* C36 (one request in flight): the PARTITION_TEXT requests of a page load
\* are sent strictly one at a time, each after the response to the one
\* before has arrived, for paragraphs in increasing order; only one call of
\* processParagraphs ever gets past the two flags, so a call made while one
\* is running or after one has started sends nothing.
C36_OneRequestInFlight ==
    /\ call.started <= 1
    /\ \A k \in DOMAIN call.log :
         /\ call.log[k].kind = (IF k % 2 = 1 THEN "request" ELSE "response")
         /\ k % 2 = 0 => call.log[k].i = call.log[k - 1].i
         /\ k > 2 => call.log[k].i >= call.log[k - 2].i + (k % 2)
    /\ Len(call.log) % 2 = 1 <=> call.at = "await"

\* three calls were made, the first sent three requests, the second of
\* which failed, and later calls sent none
C36_Witness ==
    /\ call.calls = 3
    /\ call.started = 1
    /\ call.at = "done"
    /\ [k \in DOMAIN call.log |-> call.log[k].i] = <<0, 0, 1, 1, 2, 2>>
    /\ call.paragraphsToCache = << <<"r">>, <<>>, <<"r">> >>
    /\ call.stored

\* C37 (a cache hit makes no generator request): once the cache has
\* answered with an entry whose list of paragraphs is not empty, no
\* PARTITION_TEXT request is sent during the page load, whatever is called
\* later, also when an entry of the list has responseData null or the page
\* has more paragraphs than the list.
C37_CacheHitNoRequest ==
    ( /\ call.answered
      /\ call.cachedData /= <<>>
      /\ Len(call.cachedData[1]) > 0 ) =>
        /\ call.log = <<>>
        /\ call.at = "done"
        /\ ~call.isProcessing

\* the page has three paragraphs, the cached list has two entries, the first
\* with responseData null; processParagraphs was called again afterwards
C37_Witness ==
    /\ call.answered
    /\ call.n = 3
    /\ call.cachedData = << << <<>>, <<"r">> >> >>
    /\ call.calls = 3
    /\ call.log = <<>>

\* C38 (debounced block navigation): a sequence of k presses of the same
\* arrow key, each less than the threshold after the one before, leads to at
\* most one seek; no seek is made while a press is less than the threshold
\* old, so that the seek comes after the presses have stopped; and the seek
\* made goes to block max(0, base - (k - 1)) for the left key and to block
\* min(last, base + k) for the right key, base being the block found at the
\* first press of the sequence.
C38_DebouncedNavigation ==
    /\ call.seeks <= 1
    /\ ( call.seeks = 1 /\ call.presses >= 1 ) =>
         /\ call.since >= DOUBLE_PRESS_THRESHOLD
         /\ call.seekTimer = <<>>
         /\ call.lastSeek /= <<>>
         /\ call.lastSeek[1].presses = call.presses
         /\ call.lastSeek[1].base = call.base
         /\ call.lastSeek[1].targetIndex =
              IF call.direction = "left"
              THEN (IF call.base - (call.presses - 1) > 0
                    THEN call.base - (call.presses - 1) ELSE 0)
              ELSE (IF call.base + call.presses < call.length - 1
                    THEN call.base + call.presses ELSE call.length - 1)
    /\ call.since < DOUBLE_PRESS_THRESHOLD => call.seeks = 0

\* three quick presses of the left key in the third block, while the audio
\* moved on, and one seek to the first block
C38_Witness ==
    /\ call.direction = "left"
    /\ call.length = 3
    /\ call.presses = 3
    /\ call.base = 2
    /\ call.seeks = 1
    /\ call.lastSeek[1].targetIndex = 0
    /\ call.position = 0

\* two quick presses of the right key in the first block: one seek, to the
\* third block
C38_WitnessRight ==
    /\ call.direction = "right"
    /\ call.length = 3
    /\ call.presses = 2
    /\ call.base = 0
    /\ call.seeks = 1
    /\ call.lastSeek[1].targetIndex = 2

\* the audio is playing without a pause pending and has reached a word after
\* the end of block b (counted from 1)
AdvancedPast(b) ==
    /\ call.playing
    /\ ~call.isInPause
    /\ call.position > Boundaries(call.length)[b].endC

\* C39 (shadowing repetitions): with shadowing enabled and R repetitions,
\* every block that playback went through from its start is played R times
\* before playback advances to the next block: the audio is paused each time
\* the block has finished playing, and after each of the first R - 1 pauses
\* the same block is replayed from its start.
C39_ShadowingRepetitions ==
    \A b \in 1 .. call.length - 1 :
      /\ call.pauses[b] <= call.plays[b]
      /\ call.replays[b] <= call.repetitions - 1
      /\ ( b > call.first /\ AdvancedPast(b) ) =>
           /\ call.plays[b] = call.repetitions
           /\ call.pauses[b] = call.repetitions
           /\ call.replays[b] = call.repetitions - 1

\* what the code keeps of C39: with one repetition every block but the last
\* is played once and paused once
C39_OneRepetition ==
    call.repetitions = 1 =>
      \A b \in 1 .. call.length - 1 :
        ( b > call.first /\ AdvancedPast(b) ) =>
          call.plays[b] = 1 /\ call.pauses[b] = 1 /\ call.replays[b] = 0

\* two repetitions: the first block has played twice and was paused once,
\* and playback goes on in the second block
C39_SecondPlayNotPaused ==
    /\ call.repetitions = 2
    /\ call.first = 0
    /\ call.plays[1] = 2
    /\ call.pauses[1] = 1
    /\ AdvancedPast(1)

\* two repetitions: the second block has played once and playback is in the
\* third block
C39_BlockPlayedOnce ==
    /\ call.repetitions = 2
    /\ call.first = 0
    /\ call.length = 3
    /\ call.plays[2] = 1
    /\ call.replays[2] = 0
    /\ AdvancedPast(2)

=============================================================================
